---- MODULE Spec2Model ----
(***************************************************************************)
(* ARSANA letter registry: the letter controllers (incoming / outgoing),   *)
(* the calendar-event projector and the cron service, as a state machine.  *)
(* Every awaited database call is one atomic step of the handler that      *)
(* issues it, followed by the synchronous code up to the next await.       *)
(***************************************************************************)
EXTENDS Integers, Sequences, FiniteSets, Bags, TLC

\* ------------------------------------------------------------------ bounds
MaxLetters == 2
MaxReqs == 3
MaxEdits == 2
MaxTime == 7
Delay == 1
WeekDay0 == 1

\* ------------------------------------------------------- program constants
DayLen == 4
OverdueTake == 20
MinLetterNumber == 3
MinSubject == 5

\* --------------------------------------------------------------- sentinels
NullDate == 0
UndefDate == -1
NullS == "null"
UndefS == "undefined"
NoFile == 0
NoEvent == 0
NoLetter == 0

Users == {"u1", "u2", "admin"}
Role(u) == IF u = "admin" THEN "ADMIN" ELSE "STAFF"

Jobs == {"upcomingEvents", "overdueInvitations", "weeklySummary"}
Slots == {1, 2}
Reqs == {1, 2}

VARIABLES
  letters,      \* incoming_letters and outgoing_letters rows, by id (field dir)
  events,       \* calendar_events rows, by id
  disps,        \* dispositions rows, by id
  files,        \* stored upload files present on disk
  notifs,       \* notifications rows, a bag (the generated ids left out)
  nextLetter, nextEvent, nextFile, nextDisp,   \* id generators
  req,          \* HTTP requests in flight, one record per slot
  nreqs,        \* requests accepted so far
  now,          \* wall clock, in ticks (DayLen ticks per day)
  jobStatus,    \* the cron service's re-entrancy flags
  inv,          \* cron invocations, per job and slot
  fired,        \* the last scheduled occurrence of each job that was fired
  outcome       \* how the last invocation of each job ended, and what it had selected

dbVars == <<letters, events, disps, files, notifs, nextLetter, nextEvent, nextFile, nextDisp>>
reqVars == <<req, nreqs>>
jobVars == <<jobStatus, inv, fired, outcome>>
vars == <<letters, events, disps, files, notifs, nextLetter, nextEvent, nextFile,
          nextDisp, req, nreqs, now, jobStatus, inv, fired, outcome>>

\* ----------------------------------------------------------------- tables
Insert(t, id, row) == t @@ (id :> row)
Remove(t, ids) == [i \in (DOMAIN t) \ ids |-> t[i]]
EmptyTable == [i \in {} |-> 0]

Min(a, b) == IF a < b THEN a ELSE b
CeilDiv(a, b) == IF a >= 0 THEN (a + b - 1) \div b ELSE -((-a) \div b)

SeqsOf(S) == {s \in [1..Cardinality(S) -> S] : \A i, j \in 1..Cardinality(S) : i # j => s[i] # s[j]}

\* ------------------------------------------------------------ notifications
\* createNotification(title, message, type, userId): one notifications row.
\* ref and count stand for the event and the number quoted in the message.
Notification(title, type, userId, ref, count) ==
  [title |-> title, type |-> type, userId |-> userId, ref |-> ref, count |-> count]

createNotification(title, type, userId, ref, count) ==
  notifs (+) SetToBag({Notification(title, type, userId, ref, count)})

\* ------------------------------------------------------------- cron service
IdleInv == [pc |-> "idle", now |-> 0, list |-> <<>>, idx |-> 0, sel |-> {}, cnt |-> <<0, 0>>,
            missed |-> -1, mails |-> <<>>]

InBody(j, k) == inv[j][k].pc # "idle"

SetInv(j, k, r) == [inv EXCEPT ![j][k] = r]

\* The flag cleared after the try/catch instead of in finally: a throw inside the
\* catch handler leaves it set.
FinallyAfterCatch(j, k, how) ==
  /\ jobStatus' = IF how = "threw" THEN jobStatus ELSE [jobStatus EXCEPT ![j] = FALSE]
  /\ inv' = SetInv(j, k, IdleInv)
  /\ outcome' = [outcome EXCEPT ![j] = [how |-> how, sel |-> inv[j][k].sel,
                                        missed |-> inv[j][k].missed,
                                        mails |-> inv[j][k].mails]]

\* try { ... } finally { jobStatus.<job> = false }: every exit from the body.
Finally(j, k, how) ==
  /\ jobStatus' = [jobStatus EXCEPT ![j] = FALSE]
  /\ inv' = SetInv(j, k, IdleInv)
  /\ outcome' = [outcome EXCEPT ![j] = [how |-> how, sel |-> inv[j][k].sel,
                                        missed |-> inv[j][k].missed,
                                        mails |-> inv[j][k].mails]]

\* One lock for the whole service: a job is skipped while any job runs.
GuardAny(j) == \E j2 \in Jobs : jobStatus[j2]

\* Every job testing the flag of the weekly summary: a copied guard.
GuardCopied(j) == jobStatus["weeklySummary"]

\* if (jobStatus.<job>) return;  jobStatus.<job> = true;
Guard(j) == jobStatus[j]

\* today.getDay(): 0 is Sunday.
GetDay(t) == ((t \div DayLen) + WeekDay0) % 7

\* SCHEDULES: '0 8 * * 1', '0 9 * * *', '0 18 * * *' as ticks of the day.
At(j) == CASE j = "weeklySummary" -> 0 [] j = "upcomingEvents" -> 1 [] OTHER -> 3

Occurrence(j, t) == (t - At(j)) \div DayLen

\* The scheduler calls the job at its time of day, up to Delay ticks late.
Scheduled(j, t) ==
  /\ t >= At(j)
  /\ (t - At(j)) % DayLen <= Delay
  /\ j = "weeklySummary" => GetDay(t - ((t - At(j)) % DayLen)) = 1

\* The scheduled occurrence before the one at t, when the trigger did not fire for
\* it (the process was down, the event loop was blocked); -1 when there is none.
Missed(j, t) == IF Occurrence(j, t) > fired[j] + 1 THEN Occurrence(j, t) - 1 ELSE -1

\* cron.schedule(...): the trigger of job j fires and calls the job function,
\* once for each scheduled occurrence.
Trigger(j, k) ==
  /\ Scheduled(j, now)
  /\ Occurrence(j, now) > fired[j]
  /\ inv[j][k].pc = "idle"
  /\ \A k2 \in Slots : k2 < k => inv[j][k2].pc # "idle"
  /\ fired' = [fired EXCEPT ![j] = Occurrence(j, now)]
  /\ IF Guard(j)
       THEN /\ outcome' = [outcome EXCEPT ![j] = [how |-> "skipped", sel |-> {}, missed |-> -1,
                                                   mails |-> <<>>]]
            /\ UNCHANGED <<jobStatus, inv>>
       ELSE /\ jobStatus' = [jobStatus EXCEPT ![j] = TRUE]
            /\ inv' = SetInv(j, k, [IdleInv EXCEPT !.pc = "query", !.now = now,
                                                    !.missed = Missed(j, now)])
            /\ UNCHANGED outcome
  /\ UNCHANGED <<dbVars, reqVars, now>>

\* threeDaysLater: now + 3 days, then setHours(23, 59, 59, 999).
EndOfDay(t) == (t \div DayLen) * DayLen + DayLen - 1
ThreeDaysLater(t) == EndOfDay(t + 3 * DayLen)

\* Math.ceil((eventDate - now) / (1000 * 60 * 60 * 24))
DaysUntilEvent(date, t) == CeilDiv(date - t, DayLen)

\* prisma.calendarEvent.findMany({ where: { date: {gte, lte}, OR: [...] } })
UpcomingWhere(e, t) ==
  /\ e.date >= t
  /\ e.date <= ThreeDaysLater(t)
  /\ (e.notified3Days = FALSE \/ e.notified1Day = FALSE)

UpcomingIds(t) == {i \in DOMAIN events : UpcomingWhere(events[i], t)}

EventSnap(i) == [id |-> i, date |-> events[i].date, notified3Days |-> events[i].notified3Days,
                 notified1Day |-> events[i].notified1Day, userId |-> events[i].userId]

Due3(ev, t) == DaysUntilEvent(ev.date, t) = 3 /\ ~ev.notified3Days
Due1(ev, t) == DaysUntilEvent(ev.date, t) = 1 /\ ~ev.notified1Day

\* The for loop of checkUpcomingEvents from index i: the next event that needs a
\* reminder, or the end of the list.
RECURSIVE NextDue(_, _, _)
NextDue(list, i, t) ==
  IF i > Len(list) THEN i
  ELSE IF Due3(list[i], t) \/ Due1(list[i], t) THEN i
  ELSE NextDue(list, i + 1, t)

\* Continue the loop at index i with the snapshot list.
UpcomingLoop(j, k, list, i) ==
  LET n == NextDue(list, i, inv[j][k].now) IN
  IF n > Len(list)
    THEN Finally(j, k, "ok")
    ELSE /\ inv' = SetInv(j, k, [inv[j][k] EXCEPT !.list = list, !.idx = n,
                     !.pc = IF Due3(list[n], inv[j][k].now) THEN "notify3" ELSE "notify1"])
         /\ UNCHANGED <<jobStatus, outcome>>

ToCatch(j, k) ==
  /\ inv' = SetInv(j, k, [inv[j][k] EXCEPT !.pc = "catch"])
  /\ UNCHANGED <<jobStatus, outcome>>

UpcomingQuery(k) ==
  LET j == "upcomingEvents" IN
  /\ inv[j][k].pc = "query"
  /\ \/ \E list \in SeqsOf(UpcomingIds(inv[j][k].now)) :
          UpcomingLoop(j, k, [i \in 1..Len(list) |-> EventSnap(list[i])], 1)
     \/ ToCatch(j, k)
  /\ UNCHANGED <<dbVars, reqVars, now, fired>>

\* await createNotification(title, message, 'INFO', event.userId)
UpcomingNotify(k, th) ==
  LET j == "upcomingEvents"
      ev == inv[j][k].list[inv[j][k].idx] IN
  /\ inv[j][k].pc = (IF th = 3 THEN "notify3" ELSE "notify1")
  /\ \/ /\ notifs' = createNotification(IF th = 3 THEN "Pengingat Acara (3 Hari Lagi)"
                                                  ELSE "Pengingat Acara (Besok)",
                                        "INFO", ev.userId, ev.id, <<th, 0>>)
        /\ events' = IF ev.id \in DOMAIN events
                       THEN [events EXCEPT ![ev.id] =
                               IF th = 3 THEN [@ EXCEPT !.sent3 = Min(@ + 1, 2), !.for3 = ev.date]
                                         ELSE [@ EXCEPT !.sent1 = Min(@ + 1, 2), !.for1 = ev.date]]
                       ELSE events
        /\ inv' = SetInv(j, k, [inv[j][k] EXCEPT !.pc = IF th = 3 THEN "flag3" ELSE "flag1"])
        /\ UNCHANGED <<jobStatus, outcome>>
     \/ /\ ToCatch(j, k)
        /\ UNCHANGED <<notifs, events>>
  /\ UNCHANGED <<letters, disps, files, nextLetter, nextEvent, nextFile, nextDisp, reqVars, now, fired>>

\* await prisma.calendarEvent.update({ where: { id }, data: { notified3Days: true } })
SetNotified(e, th) ==
  IF th = 3 THEN [e EXCEPT !.notified3Days = TRUE] ELSE [e EXCEPT !.notified1Day = TRUE]

UpcomingFlag(k, th) ==
  LET j == "upcomingEvents"
      ev == inv[j][k].list[inv[j][k].idx] IN
  /\ inv[j][k].pc = (IF th = 3 THEN "flag3" ELSE "flag1")
  /\ \/ /\ ev.id \in DOMAIN events
        /\ events' = [events EXCEPT ![ev.id] = SetNotified(@, th)]
        /\ IF th = 3 /\ Due1(ev, inv[j][k].now)
             THEN /\ inv' = SetInv(j, k, [inv[j][k] EXCEPT !.pc = "notify1"])
                  /\ UNCHANGED <<jobStatus, outcome>>
             ELSE UpcomingLoop(j, k, inv[j][k].list, inv[j][k].idx + 1)
     \/ /\ ToCatch(j, k)
        /\ UNCHANGED events
  /\ UNCHANGED <<letters, disps, files, notifs, nextLetter, nextEvent, nextFile, nextDisp, reqVars, now, fired>>

\* catch: await createNotification('System Error', ..., 'ERROR'); finally.
UpcomingCatch(k) ==
  LET j == "upcomingEvents" IN
  /\ inv[j][k].pc = "catch"
  /\ \/ /\ notifs' = createNotification("System Error", "ERROR", NullS, NoEvent, <<0, 0>>)
        /\ Finally(j, k, "caught")
     \/ /\ UNCHANGED notifs
        /\ Finally(j, k, "threw")
  /\ UNCHANGED <<letters, events, disps, files, nextLetter, nextEvent, nextFile, nextDisp, reqVars, now, fired>>

\* where: { isInvitation: true, eventDate: { lt: now }, overdueNotifiedAt: null }
OverdueWhere(l, t) ==
  /\ l.dir = "in"
  /\ l.isInvitation
  /\ l.eventDate # NullDate
  /\ l.eventDate < t
  /\ l.overdueNotifiedAt = NullDate

OverdueIds(t) == {i \in DOMAIN letters : OverdueWhere(letters[i], t)}

\* findMany({ where, take: 20 }): any 20 of the matching rows, or all of them.
Take(S, n) == {T \in SUBSET S : Cardinality(T) = Min(n, Cardinality(S))}

OverdueQuery(k) ==
  LET j == "overdueInvitations" IN
  /\ inv[j][k].pc = "query"
  /\ \/ \E sel \in Take(OverdueIds(inv[j][k].now), OverdueTake) :
          IF sel = {}
            THEN Finally(j, k, "ok")
            ELSE /\ inv' = SetInv(j, k, [inv[j][k] EXCEPT !.pc = "notify", !.sel = sel])
                 /\ UNCHANGED <<jobStatus, outcome>>
     \/ Finally(j, k, "caught")
  /\ UNCHANGED <<dbVars, reqVars, now, fired>>

OverdueNotify(k) ==
  LET j == "overdueInvitations" IN
  /\ inv[j][k].pc = "notify"
  /\ \/ /\ notifs' = createNotification("Undangan Terlewat", "WARNING", NullS, NoEvent,
                                        <<Cardinality(inv[j][k].sel), 0>>)
        /\ letters' = [i \in DOMAIN letters |->
                         IF i \in inv[j][k].sel THEN [letters[i] EXCEPT !.alerts = Min(@ + 1, 2),
                                                                     !.alertedAt = now]
                                                ELSE letters[i]]
        /\ inv' = SetInv(j, k, [inv[j][k] EXCEPT !.pc = "stamp"])
        /\ UNCHANGED <<jobStatus, outcome>>
     \/ /\ UNCHANGED <<notifs, letters>>
        /\ Finally(j, k, "caught")
  /\ UNCHANGED <<events, disps, files, nextLetter, nextEvent, nextFile, nextDisp, reqVars, now, fired>>

\* updateMany({ where: { id: { in: idsToUpdate } }, data: { overdueNotifiedAt: new Date() } })
OverdueStamp(k) ==
  LET j == "overdueInvitations" IN
  /\ inv[j][k].pc = "stamp"
  /\ \/ /\ letters' = [i \in DOMAIN letters |->
                         IF i \in inv[j][k].sel THEN [letters[i] EXCEPT !.overdueNotifiedAt = now]
                                                ELSE letters[i]]
        /\ Finally(j, k, "ok")
     \/ /\ UNCHANGED letters
        /\ Finally(j, k, "caught")
  /\ UNCHANGED <<events, disps, files, notifs, nextLetter, nextEvent, nextFile, nextDisp, reqVars, now, fired>>

\* new Date(today.setDate(today.getDate() - today.getDay() + 1))
StartOfWeek(t) == t - (GetDay(t) - 1) * DayLen

\* new Date(today.setDate(today.getDate() - today.getDay() + 7)), today already moved.
EndOfWeek(t) == StartOfWeek(t) - (GetDay(StartOfWeek(t)) - 7) * DayLen

\* count({ where: { createdAt: { gte: startOfWeek, lte: endOfWeek } } })
WeekCount(d, t) ==
  Cardinality({i \in DOMAIN letters : /\ letters[i].dir = d
                                      /\ letters[i].createdAt >= StartOfWeek(t)
                                      /\ letters[i].createdAt <= EndOfWeek(t)})

WeeklyCount(k) ==
  LET j == "weeklySummary" IN
  /\ inv[j][k].pc = "query"
  /\ \/ /\ inv' = SetInv(j, k, [inv[j][k] EXCEPT !.pc = "notify",
                    !.cnt = <<WeekCount("in", inv[j][k].now), WeekCount("out", inv[j][k].now)>>])
        /\ UNCHANGED <<jobStatus, outcome>>
     \/ Finally(j, k, "caught")
  /\ UNCHANGED <<dbVars, reqVars, now, fired>>

WeeklyNotify(k) ==
  LET j == "weeklySummary" IN
  /\ inv[j][k].pc = "notify"
  /\ \/ /\ notifs' = createNotification("Rangkuman Mingguan", "INFO", NullS, NoEvent, inv[j][k].cnt)
        /\ Finally(j, k, "ok")
     \/ /\ UNCHANGED notifs
        /\ Finally(j, k, "caught")
  /\ UNCHANGED <<letters, events, disps, files, nextLetter, nextEvent, nextFile, nextDisp, reqVars, now, fired>>

\* The wall clock advances.
Tick ==
  /\ now < MaxTime
  /\ now' = now + 1
  /\ UNCHANGED <<dbVars, reqVars, jobVars>>

\* ------------------------------------------------------------------ letters
\* A row of incoming_letters (dir "in") or outgoing_letters (dir "out"); baseDate
\* is receivedDate or createdDate. alerts and alertedAt are history: the overdue
\* notifications whose batch included the letter, and the time of the last one.
NoRow == [dir |-> "none", userId |-> "u1", letterNumber |-> NullS, subject |-> NullS,
          baseDate |-> NullDate, isInvitation |-> FALSE, eventDate |-> NullDate,
          eventTime |-> NullS, eventLocation |-> NullS, eventNotes |-> NullS,
          filePath |-> NoFile, overdueNotifiedAt |-> NullDate, createdAt |-> NullDate,
          needsFollowUp |-> FALSE, followUpDeadline |-> NullDate, alerts |-> 0,
          alertedAt |-> NullDate]

\* A request body: UndefS / UndefDate mark a field the client did not send.
NoBody == [letterNumber |-> UndefS, subject |-> UndefS, baseDate |-> UndefDate,
           isInvitation |-> UndefS, eventDate |-> UndefDate, eventTime |-> UndefS,
           eventLocation |-> UndefS, eventNotes |-> UndefS, dispositionTo |-> UndefS,
           needsFollowUp |-> UndefS, followUpDeadline |-> UndefDate]

\* ------------------------------------------------------- JavaScript numbers
\* A number the list handlers compute: <<n, 1>> is the integer n, <<0, 0>> is NaN,
\* <<1, 0>> is Infinity.
Fin(n) == <<n, 1>>
NaN == <<0, 0>>
Infinity == <<1, 0>>

\* A query string is a sequence of characters; a parameter that was not sent reads
\* undefined.
Absent == <<"undefined">>
DigitOf == ("0" :> 0) @@ ("1" :> 1) @@ ("2" :> 2) @@ ("3" :> 3) @@ ("4" :> 4) @@
           ("5" :> 5) @@ ("6" :> 6) @@ ("7" :> 7) @@ ("8" :> 8) @@ ("9" :> 9)

RECURSIVE Digits(_, _)
Digits(s, acc) ==
  IF s = <<>> \/ Head(s) \notin DOMAIN DigitOf THEN acc
  ELSE Digits(Tail(s), 10 * acc + DigitOf[Head(s)])

\* parseInt: an optional sign, then the longest run of decimal digits; NaN without
\* a digit.
parseInt(s) ==
  LET signed == s # <<>> /\ Head(s) \in {"-", "+"}
      body == IF signed THEN Tail(s) ELSE s
  IN IF body = <<>> \/ Head(body) \notin DOMAIN DigitOf THEN NaN
     ELSE IF signed /\ Head(s) = "-" THEN Fin(0 - Digits(body, 0)) ELSE Fin(Digits(body, 0))

\* x || d: NaN and 0 are falsy.
OrElse(x, d) == IF x = NaN \/ x = Fin(0) THEN d ELSE x

MathMax(a, b) == IF a = NaN \/ b = NaN THEN NaN ELSE IF a[1] >= b[1] THEN a ELSE b
MathMin(a, b) == IF a = NaN \/ b = NaN THEN NaN ELSE IF a[1] <= b[1] THEN a ELSE b

\* (page - 1) * limit
SkipOf(page, limit) == IF page = NaN \/ limit = NaN THEN NaN ELSE Fin((page[1] - 1) * limit[1])

\* Math.ceil(total / limit) for a count total >= 0.
MathCeilDiv(total, limit) ==
  IF limit = NaN THEN NaN
  ELSE IF limit[1] = 0 THEN (IF total = 0 THEN NaN ELSE Infinity)
  ELSE IF limit[1] > 0 THEN Fin(CeilDiv(total, limit[1]))
  ELSE Fin(0 - (total \div (0 - limit[1])))

NoQuery == [page |-> Absent, limit |-> Absent]
NoPagination == [total |-> 0, pages |-> NaN, current |-> NaN, limit |-> NaN, skip |-> NaN]

\* again and before are history: the request repeats the previous one, and what the
\* calendar showed for the letter when it was sent; list is the array answered, query
\* the query string, pagination the pagination object answered with the skip used.
IdleReq == [op |-> "none", pc |-> "idle", actor |-> "u1", id |-> NoLetter, body |-> NoBody,
            file |-> NoFile, snap |-> NoRow, ev |-> NoEvent, oldFile |-> NoFile, status |-> 0,
            again |-> FALSE, before |-> {}, list |-> <<>>, query |-> NoQuery,
            pagination |-> NoPagination]

\* booleanPreprocess / toBoolean on a form string.
booleanPreprocess(val) == val \in {"true", "1", "on", "yes"}

\* datePreprocess: if (!val) return null.
datePreprocess(val) == IF val = UndefDate THEN NullDate ELSE val

\* An optional column the client did not send is stored as NULL.
Stored(x) == IF x = UndefS THEN NullS ELSE x

\* x || null
OrNull(x) == IF x = UndefS \/ x = "" THEN NullS ELSE x

\* incomingLetterCreateSchema.parse: the field rules of incomingLetterBaseSchema.
incomingLetterCreateSchema(b) ==
  /\ b.letterNumber # UndefS /\ b.letterNumber # NullS
  /\ Len(b.letterNumber) >= MinLetterNumber
  /\ b.subject # UndefS /\ b.subject # NullS
  /\ Len(b.subject) >= MinSubject
  /\ datePreprocess(b.baseDate) # NullDate

\* incomingLetterUpdateSchema.parse: every field optional and nullable.
incomingLetterUpdateSchema(b) ==
  /\ b.letterNumber \notin {UndefS, NullS} => Len(b.letterNumber) >= MinLetterNumber
  /\ b.subject \notin {UndefS, NullS} => Len(b.subject) >= MinSubject

\* The row prisma.<letter>.create stores for a parsed body.
CreatedRow(d, b, actor, file) ==
  [dir |-> d, userId |-> actor, letterNumber |-> b.letterNumber, subject |-> b.subject,
   baseDate |-> b.baseDate, isInvitation |-> booleanPreprocess(b.isInvitation),
   eventDate |-> datePreprocess(b.eventDate), eventTime |-> Stored(b.eventTime),
   eventLocation |-> Stored(b.eventLocation), eventNotes |-> Stored(b.eventNotes),
   filePath |-> file, overdueNotifiedAt |-> NullDate, createdAt |-> now,
   needsFollowUp |-> booleanPreprocess(b.needsFollowUp),
   followUpDeadline |-> datePreprocess(b.followUpDeadline), alerts |-> 0,
   alertedAt |-> NullDate]

PatchS(old, new) == IF new = UndefS THEN old ELSE new
PatchD(old, new) == IF new = UndefDate THEN old ELSE new

\* The row prisma.<letter>.update leaves: undefined keeps the column.
UpdatedRow(l, b, file) ==
  [l EXCEPT !.letterNumber = PatchS(@, b.letterNumber),
            !.subject = PatchS(@, b.subject),
            !.baseDate = PatchD(@, b.baseDate),
            !.isInvitation = IF b.isInvitation = UndefS THEN @ ELSE booleanPreprocess(b.isInvitation),
            !.eventDate = PatchD(@, b.eventDate),
            !.eventTime = PatchS(@, b.eventTime),
            !.eventLocation = PatchS(@, b.eventLocation),
            !.eventNotes = PatchS(@, b.eventNotes),
            !.filePath = IF file = NoFile THEN @ ELSE file,
            !.needsFollowUp = IF b.needsFollowUp = UndefS THEN @ ELSE booleanPreprocess(b.needsFollowUp),
            !.followUpDeadline = PatchD(@, b.followUpDeadline)]

\* The unique index on letterNumber of one direction's table (P2002).
Duplicate(d, num, self) ==
  \E i \in DOMAIN letters : i # self /\ letters[i].dir = d /\ letters[i].letterNumber = num

Exists(d, id) == id \in DOMAIN letters /\ letters[id].dir = d

\* The role test inverted: === 'ADMIN' for !== 'ADMIN'.
ForbiddenInverted(l, actor) == l.userId # actor /\ Role(actor) = "ADMIN"

\* existingLetter.userId !== userId && req.user.role !== 'ADMIN'
Forbidden(l, actor) == l.userId # actor /\ Role(actor) # "ADMIN"

\* validatedData.<field> !== undefined for the five fields the controller lists.
hasInvitationChanges(b) ==
  \/ b.isInvitation # UndefS
  \/ b.eventDate # UndefDate
  \/ b.subject # UndefS
  \/ b.eventLocation # UndefS
  \/ b.eventNotes # UndefS

\* ------------------------------------------------------- requests: plumbing
SetReq(r, rec) == [req EXCEPT ![r] = rec]

\* res.status(code): the request is answered.
Respond(r, code) ==
  req' = SetReq(r, [req[r] EXCEPT !.pc = "done", !.status = code, !.snap = NoRow,
                                  !.ev = NoEvent, !.oldFile = NoFile])

Goto(r, pc) == req' = SetReq(r, [req[r] EXCEPT !.pc = pc])

\* cleanupFileOnError(req.file) / fs.unlink(req.file.path)
cleanupFileOnError(r) == files \ {req[r].file}

\* deletePhysicalFile(filePath)
deletePhysicalFile(path) == files \ {path}

\* catch (error) { cleanupFileOnError(req.file); handleError(error, res) }
Fail(r, code) ==
  /\ files' = cleanupFileOnError(r)
  /\ Respond(r, code)

\* An HTTP request arrives: multer stores the uploaded file, the handler starts.
Accept(r, op, actor, id, body, upload) ==
  /\ nreqs < MaxReqs
  /\ req[r].pc \in {"idle", "done"}
  /\ nreqs' = nreqs + 1
  /\ req' = SetReq(r, [IdleReq EXCEPT !.op = op, !.pc = "start", !.actor = actor, !.id = id,
                                      !.body = body, !.file = IF upload THEN nextFile ELSE NoFile])
  /\ files' = IF upload THEN files \cup {nextFile} ELSE files
  /\ nextFile' = IF upload THEN nextFile + 1 ELSE nextFile
  /\ UNCHANGED <<letters, events, disps, notifs, nextLetter, nextEvent, nextDisp, now, jobVars>>

\* ------------------------------------------------ calendar event projector
\* description: `Surat Masuk: ${letter.letterNumber}\n${letter.eventNotes || ''}`
Description(l) == <<l.letterNumber, IF OrNull(l.eventNotes) = NullS THEN "" ELSE l.eventNotes>>

\* The data object of prisma.calendarEvent.create in createCalendarEventFromLetter.
\* origin, sent3, sent1, for3 and for1 are history: the letter the row was derived
\* from, the reminders sent for it since its flags were last reset, and the event
\* date the job had read when it last stored a reminder of each threshold.
NewEvent(id, l, userId) ==
  [title |-> l.subject, description |-> Description(l), date |-> l.eventDate,
   time |-> OrNull(l.eventTime), location |-> OrNull(l.eventLocation),
   notified3Days |-> FALSE, notified1Day |-> FALSE,
   incomingLetterId |-> id, userId |-> userId, origin |-> id, sent3 |-> 0, sent1 |-> 0,
   for3 |-> NullDate, for1 |-> NullDate]

\* The data object of prisma.calendarEvent.update in updateCalendarEventFromLetter.
SyncedEvent(e, l) ==
  [e EXCEPT !.title = l.subject, !.description = Description(l), !.date = l.eventDate,
            !.time = OrNull(l.eventTime), !.location = OrNull(l.eventLocation),
            !.notified3Days = FALSE, !.notified1Day = FALSE, !.sent3 = 0, !.sent1 = 0]

\* findFirst({ where: { incomingLetterId } })
EventsOf(id) == {i \in DOMAIN events : events[i].incomingLetterId = id}

\* if (!letter.isInvitation || !letter.eventDate)
NotInvitation(l) == ~l.isInvitation \/ l.eventDate = NullDate

\* What the handler does once the projector has returned.
AfterProjector(r) ==
  IF req[r].op = "deleteIncomingLetter"
    THEN /\ files' = deletePhysicalFile(req[r].oldFile)
         /\ Goto(r, "delete")
    ELSE /\ UNCHANGED files
         /\ Respond(r, IF req[r].op = "createIncomingLetter" THEN 201 ELSE 200)

\* updateCalendarEventFromLetter(letter, userId), entered with the row just written.
EnterSync(r, l) ==
  req' = SetReq(r, [req[r] EXCEPT !.snap = l,
                      !.pc = IF NotInvitation(l) THEN "cal_del_find" ELSE "cal_find"])

\* createCalendarEventFromLetter: prisma.calendarEvent.create, errors logged.
CalCreate(r) ==
  /\ req[r].pc = "cal_create"
  /\ \/ /\ Exists("in", req[r].id)
        /\ events' = Insert(events, nextEvent, NewEvent(req[r].id, req[r].snap, req[r].actor))
        /\ nextEvent' = nextEvent + 1
     \/ UNCHANGED <<events, nextEvent>>
  /\ AfterProjector(r)
  /\ UNCHANGED <<letters, disps, notifs, nextLetter, nextFile, nextDisp, nreqs, now, jobVars>>

\* updateCalendarEventFromLetter: const existingEvent = await findFirst(...)
CalFind(r) ==
  /\ req[r].pc = "cal_find"
  /\ \/ \E e \in EventsOf(req[r].id) :
          /\ req' = SetReq(r, [req[r] EXCEPT !.ev = e, !.pc = "cal_update"])
          /\ UNCHANGED files
     \/ /\ EventsOf(req[r].id) = {}
        /\ Goto(r, "cal_create")
        /\ UNCHANGED files
     \/ AfterProjector(r)
  /\ UNCHANGED <<letters, events, disps, notifs, nextLetter, nextEvent, nextFile, nextDisp, nreqs, now, jobVars>>

\* prisma.calendarEvent.update({ where: { id: existingEvent.id }, data }), errors logged.
CalUpdate(r) ==
  /\ req[r].pc = "cal_update"
  /\ \/ /\ req[r].ev \in DOMAIN events
        /\ events' = [events EXCEPT ![req[r].ev] = SyncedEvent(@, req[r].snap)]
     \/ UNCHANGED events
  /\ AfterProjector(r)
  /\ UNCHANGED <<letters, disps, notifs, nextLetter, nextEvent, nextFile, nextDisp, nreqs, now, jobVars>>

\* deleteCalendarEventByLetterId: const existingEvent = await findFirst(...)
CalDeleteFind(r) ==
  /\ req[r].pc = "cal_del_find"
  /\ \/ \E e \in EventsOf(req[r].id) :
          /\ req' = SetReq(r, [req[r] EXCEPT !.ev = e, !.pc = "cal_delete"])
          /\ UNCHANGED files
     \/ AfterProjector(r)
  /\ UNCHANGED <<letters, events, disps, notifs, nextLetter, nextEvent, nextFile, nextDisp, nreqs, now, jobVars>>

\* prisma.calendarEvent.delete({ where: { id: existingEvent.id } }), errors logged.
CalDelete(r) ==
  /\ req[r].pc = "cal_delete"
  /\ \/ events' = Remove(events, {req[r].ev})
     \/ UNCHANGED events
  /\ AfterProjector(r)
  /\ UNCHANGED <<letters, disps, notifs, nextLetter, nextEvent, nextFile, nextDisp, nreqs, now, jobVars>>

\* ------------------------------------------------ incoming letter controller
\* createIncomingLetter: parse, prisma.incomingLetter.create, then the projector.
CreateIncoming(r) ==
  /\ req[r].op = "createIncomingLetter" /\ req[r].pc = "start"
  /\ LET b == req[r].body
         row == CreatedRow("in", b, req[r].actor, req[r].file) IN
     \/ /\ ~incomingLetterCreateSchema(b)
        /\ Fail(r, 400)
        /\ UNCHANGED <<letters, nextLetter>>
     \/ /\ incomingLetterCreateSchema(b)
        /\ Duplicate("in", b.letterNumber, NoLetter)
        /\ Fail(r, 409)
        /\ UNCHANGED <<letters, nextLetter>>
     \/ /\ incomingLetterCreateSchema(b)
        /\ Fail(r, 500)
        /\ UNCHANGED <<letters, nextLetter>>
     \/ /\ incomingLetterCreateSchema(b)
        /\ ~Duplicate("in", b.letterNumber, NoLetter)
        /\ letters' = Insert(letters, nextLetter, row)
        /\ nextLetter' = nextLetter + 1
        /\ UNCHANGED files
        /\ IF row.isInvitation /\ ~NotInvitation(row)
             THEN req' = SetReq(r, [req[r] EXCEPT !.id = nextLetter, !.snap = row, !.pc = "cal_create"])
             ELSE req' = SetReq(r, [req[r] EXCEPT !.id = nextLetter, !.pc = "done", !.status = 201])
  /\ UNCHANGED <<events, disps, notifs, nextEvent, nextFile, nextDisp, nreqs, now, jobVars>>

\* updateIncomingLetter up to the update call: parse, findUnique, the ownership
\* check, and the removal of the old file when a new one was uploaded.
UpdateIncomingFind(r) ==
  /\ req[r].op = "updateIncomingLetter" /\ req[r].pc = "start"
  /\ LET b == req[r].body IN
     \/ /\ ~incomingLetterUpdateSchema(b)
        /\ Fail(r, 400)
     \/ /\ incomingLetterUpdateSchema(b)
        /\ Fail(r, 500)
     \/ /\ incomingLetterUpdateSchema(b)
        /\ ~Exists("in", req[r].id)
        /\ Fail(r, 404)
     \/ /\ incomingLetterUpdateSchema(b)
        /\ Exists("in", req[r].id)
        /\ Forbidden(letters[req[r].id], req[r].actor)
        /\ Fail(r, 403)
     \/ /\ incomingLetterUpdateSchema(b)
        /\ Exists("in", req[r].id)
        /\ ~Forbidden(letters[req[r].id], req[r].actor)
        /\ files' = IF req[r].file # NoFile
                      THEN deletePhysicalFile(letters[req[r].id].filePath) ELSE files
        /\ Goto(r, "update")
  /\ UNCHANGED <<letters, events, disps, notifs, nextLetter, nextEvent, nextFile, nextDisp, nreqs, now, jobVars>>

\* prisma.incomingLetter.update, then hasInvitationChanges and the projector.
UpdateIncomingWrite(r) ==
  /\ req[r].op = "updateIncomingLetter" /\ req[r].pc = "update"
  /\ LET b == req[r].body
         id == req[r].id IN
     \/ /\ ~Exists("in", id)
        /\ Fail(r, 404)
        /\ UNCHANGED letters
     \/ /\ Exists("in", id)
        /\ b.letterNumber # UndefS /\ Duplicate("in", b.letterNumber, id)
        /\ Fail(r, 409)
        /\ UNCHANGED letters
     \/ /\ Fail(r, 500)
        /\ UNCHANGED letters
     \/ /\ Exists("in", id)
        /\ ~(b.letterNumber # UndefS /\ Duplicate("in", b.letterNumber, id))
        /\ letters' = [letters EXCEPT ![id] = UpdatedRow(@, b, req[r].file)]
        /\ UNCHANGED files
        /\ IF hasInvitationChanges(b)
             THEN EnterSync(r, UpdatedRow(letters[id], b, req[r].file))
             ELSE Respond(r, 200)
  /\ UNCHANGED <<events, disps, notifs, nextLetter, nextEvent, nextFile, nextDisp, nreqs, now, jobVars>>

\* deleteIncomingLetter up to deleteCalendarEventByLetterId.
DeleteIncomingFind(r) ==
  /\ req[r].op = "deleteIncomingLetter" /\ req[r].pc = "start"
  /\ \/ Respond(r, 500)
     \/ /\ ~Exists("in", req[r].id)
        /\ Respond(r, 404)
     \/ /\ Exists("in", req[r].id)
        /\ Forbidden(letters[req[r].id], req[r].actor)
        /\ Respond(r, 403)
     \/ /\ Exists("in", req[r].id)
        /\ ~Forbidden(letters[req[r].id], req[r].actor)
        /\ req' = SetReq(r, [req[r] EXCEPT !.oldFile = letters[req[r].id].filePath,
                                           !.pc = "cal_del_find"])
  /\ UNCHANGED <<dbVars, nreqs, now, jobVars>>

\* prisma.incomingLetter.delete: dispositions cascade, calendar events keep their
\* row with incomingLetterId set to NULL.
OnDeleteSetNull(id) ==
  [i \in DOMAIN events |-> IF events[i].incomingLetterId = id
                             THEN [events[i] EXCEPT !.incomingLetterId = NoLetter]
                             ELSE events[i]]

OnDeleteCascade(id) == Remove(disps, {i \in DOMAIN disps : disps[i].incomingLetterId = id})

DeleteIncomingWrite(r) ==
  /\ req[r].op = "deleteIncomingLetter" /\ req[r].pc = "delete"
  /\ \/ /\ ~Exists("in", req[r].id)
        /\ Respond(r, 404)
        /\ UNCHANGED <<letters, events, disps>>
     \/ /\ Respond(r, 500)
        /\ UNCHANGED <<letters, events, disps>>
     \/ /\ Exists("in", req[r].id)
        /\ letters' = Remove(letters, {req[r].id})
        /\ events' = OnDeleteSetNull(req[r].id)
        /\ disps' = OnDeleteCascade(req[r].id)
        /\ Respond(r, 204)
  /\ UNCHANGED <<files, notifs, nextLetter, nextEvent, nextFile, nextDisp, nreqs, now, jobVars>>

\* --------------------------------------------------------- disposition router
DispositionTargets == {"UMPEG", "PERENCANAAN", "KAUR_KEUANGAN", "KABID",
                       "BIDANG1", "BIDANG2", "BIDANG3", "BIDANG4", "BIDANG5"}

\* z.string() for the z.enum of the nine codes: any target that was sent passes.
dispositionSchemaOpen(b) == b.dispositionTo # UndefS

\* dispositionSchema.parse
dispositionSchema(b) == b.dispositionTo \in DispositionTargets

\* createDispositionForLetter up to the create call.
DispositionFind(r) ==
  /\ req[r].op = "createDispositionForLetter" /\ req[r].pc = "start"
  /\ \/ /\ ~dispositionSchema(req[r].body)
        /\ Respond(r, 400)
     \/ /\ dispositionSchema(req[r].body)
        /\ Respond(r, 500)
     \/ /\ dispositionSchema(req[r].body)
        /\ ~Exists("in", req[r].id)
        /\ Respond(r, 404)
     \/ /\ dispositionSchema(req[r].body)
        /\ Exists("in", req[r].id)
        /\ Goto(r, "disp_create")
  /\ UNCHANGED <<dbVars, nreqs, now, jobVars>>

\* prisma.disposition.create: the foreign key needs the letter row.
DispositionWrite(r) ==
  /\ req[r].op = "createDispositionForLetter" /\ req[r].pc = "disp_create"
  /\ \/ /\ Exists("in", req[r].id)
        /\ disps' = Insert(disps, nextDisp, [incomingLetterId |-> req[r].id,
                             dispositionTo |-> req[r].body.dispositionTo,
                             createdById |-> req[r].actor, createdAt |-> now])
        /\ nextDisp' = nextDisp + 1
        /\ Respond(r, 201)
     \/ /\ UNCHANGED <<disps, nextDisp>>
        /\ Respond(r, 500)
  /\ UNCHANGED <<letters, events, files, notifs, nextLetter, nextEvent, nextFile, nreqs, now, jobVars>>

\* ------------------------------------------------ outgoing letter controller
\* outgoingLetterSchema.parse
outgoingLetterSchema(b) ==
  /\ b.letterNumber # UndefS /\ b.letterNumber # NullS /\ Len(b.letterNumber) >= 1
  /\ b.subject # UndefS /\ b.subject # NullS /\ Len(b.subject) >= 1
  /\ b.baseDate # UndefDate /\ b.baseDate # NullDate

\* updateOutgoingLetterSchema = outgoingLetterSchema.partial()
updateOutgoingLetterSchema(b) ==
  /\ b.letterNumber # UndefS => (b.letterNumber # NullS /\ Len(b.letterNumber) >= 1)
  /\ b.subject # UndefS => (b.subject # NullS /\ Len(b.subject) >= 1)
  /\ b.baseDate # UndefDate => b.baseDate # NullDate

\* createOutgoingLetter: parse and prisma.outgoingLetter.create.
CreateOutgoing(r) ==
  /\ req[r].op = "createOutgoingLetter" /\ req[r].pc = "start"
  /\ LET b == req[r].body
         row == CreatedRow("out", b, req[r].actor, req[r].file) IN
     \/ /\ ~outgoingLetterSchema(b)
        /\ Fail(r, 400)
        /\ UNCHANGED <<letters, nextLetter>>
     \/ /\ outgoingLetterSchema(b)
        /\ Duplicate("out", b.letterNumber, NoLetter)
        /\ Fail(r, 409)
        /\ UNCHANGED <<letters, nextLetter>>
     \/ /\ outgoingLetterSchema(b)
        /\ Fail(r, 500)
        /\ UNCHANGED <<letters, nextLetter>>
     \/ /\ outgoingLetterSchema(b)
        /\ ~Duplicate("out", b.letterNumber, NoLetter)
        /\ letters' = Insert(letters, nextLetter, row)
        /\ nextLetter' = nextLetter + 1
        /\ UNCHANGED files
        /\ IF row.isInvitation /\ row.eventDate # NullDate
             THEN req' = SetReq(r, [req[r] EXCEPT !.id = nextLetter, !.pc = "notify"])
             ELSE req' = SetReq(r, [req[r] EXCEPT !.id = nextLetter, !.pc = "done", !.status = 201])
  /\ UNCHANGED <<events, disps, notifs, nextEvent, nextFile, nextDisp, nreqs, now, jobVars>>

\* prisma.notification.create('Acara Baru Ditambahkan (Surat Keluar)'), inside the try.
CreateOutgoingNotify(r) ==
  /\ req[r].op = "createOutgoingLetter" /\ req[r].pc = "notify"
  /\ \/ /\ notifs' = createNotification("Acara Baru Ditambahkan (Surat Keluar)", "INFO",
                                        NullS, NoEvent, <<0, 0>>)
        /\ UNCHANGED files
        /\ Respond(r, 201)
     \/ /\ UNCHANGED notifs
        /\ Fail(r, 500)
  /\ UNCHANGED <<letters, events, disps, nextLetter, nextEvent, nextFile, nextDisp, nreqs, now, jobVars>>

\* updateOutgoingLetter up to the update call.
UpdateOutgoingFind(r) ==
  /\ req[r].op = "updateOutgoingLetter" /\ req[r].pc = "start"
  /\ LET b == req[r].body IN
     \/ /\ ~updateOutgoingLetterSchema(b)
        /\ Fail(r, 400)
     \/ /\ updateOutgoingLetterSchema(b)
        /\ Fail(r, 500)
     \/ /\ updateOutgoingLetterSchema(b)
        /\ ~Exists("out", req[r].id)
        /\ Fail(r, 404)
     \/ /\ updateOutgoingLetterSchema(b)
        /\ Exists("out", req[r].id)
        /\ Forbidden(letters[req[r].id], req[r].actor)
        /\ Fail(r, 403)
     \/ /\ updateOutgoingLetterSchema(b)
        /\ Exists("out", req[r].id)
        /\ ~Forbidden(letters[req[r].id], req[r].actor)
        /\ files' = IF req[r].file # NoFile
                      THEN deletePhysicalFile(letters[req[r].id].filePath) ELSE files
        /\ Goto(r, "update")
  /\ UNCHANGED <<letters, events, disps, notifs, nextLetter, nextEvent, nextFile, nextDisp, nreqs, now, jobVars>>

\* prisma.outgoingLetter.update; handleError knows P2002 only.
UpdateOutgoingWrite(r) ==
  /\ req[r].op = "updateOutgoingLetter" /\ req[r].pc = "update"
  /\ LET b == req[r].body
         id == req[r].id IN
     \/ /\ Exists("out", id)
        /\ b.letterNumber # UndefS /\ Duplicate("out", b.letterNumber, id)
        /\ Fail(r, 409)
        /\ UNCHANGED letters
     \/ /\ Fail(r, 500)
        /\ UNCHANGED letters
     \/ /\ Exists("out", id)
        /\ ~(b.letterNumber # UndefS /\ Duplicate("out", b.letterNumber, id))
        /\ letters' = [letters EXCEPT ![id] = UpdatedRow(@, b, req[r].file)]
        /\ UNCHANGED files
        /\ Respond(r, 200)
  /\ UNCHANGED <<events, disps, notifs, nextLetter, nextEvent, nextFile, nextDisp, nreqs, now, jobVars>>

\* deleteOutgoingLetter up to the delete call: the file is unlinked first.
DeleteOutgoingFind(r) ==
  /\ req[r].op = "deleteOutgoingLetter" /\ req[r].pc = "start"
  /\ \/ /\ Respond(r, 500)
        /\ UNCHANGED files
     \/ /\ ~Exists("out", req[r].id)
        /\ Respond(r, 404)
        /\ UNCHANGED files
     \/ /\ Exists("out", req[r].id)
        /\ Forbidden(letters[req[r].id], req[r].actor)
        /\ Respond(r, 403)
        /\ UNCHANGED files
     \/ /\ Exists("out", req[r].id)
        /\ ~Forbidden(letters[req[r].id], req[r].actor)
        /\ files' = deletePhysicalFile(letters[req[r].id].filePath)
        /\ Goto(r, "delete")
  /\ UNCHANGED <<letters, events, disps, notifs, nextLetter, nextEvent, nextFile, nextDisp, nreqs, now, jobVars>>

\* prisma.outgoingLetter.delete
DeleteOutgoingWrite(r) ==
  /\ req[r].op = "deleteOutgoingLetter" /\ req[r].pc = "delete"
  /\ \/ /\ Respond(r, 500)
        /\ UNCHANGED letters
     \/ /\ Exists("out", req[r].id)
        /\ letters' = Remove(letters, {req[r].id})
        /\ Respond(r, 204)
  /\ UNCHANGED <<events, disps, files, notifs, nextLetter, nextEvent, nextFile, nextDisp, nreqs, now, jobVars>>

\* ------------------------------------------------------------- specification
\* The state after construction: empty tables, no request, no job running.
InitCommon ==
  /\ notifs = EmptyBag
  /\ req = [r \in Reqs |-> IdleReq]
  /\ nreqs = 0
  /\ jobStatus = [j \in Jobs |-> FALSE]
  /\ inv = [j \in Jobs |-> [k \in Slots |-> IdleInv]]
  /\ fired = [j \in Jobs |-> -1]
  /\ outcome = [j \in Jobs |-> [how |-> "none", sel |-> {}, missed |-> -1, mails |-> <<>>]]

Init ==
  /\ InitCommon
  /\ disps = EmptyTable
  /\ nextDisp = 1
  /\ letters = EmptyTable
  /\ events = EmptyTable
  /\ files = {}
  /\ nextLetter = 1
  /\ nextEvent = 1
  /\ nextFile = 1
  /\ now = 1

\* The request bodies the clients send: a creation form and one-field patches.
Form(num, inv0, date) ==
  [NoBody EXCEPT !.letterNumber = num, !.subject = "Rapat", !.baseDate = 2,
                 !.isInvitation = inv0, !.eventDate = date]

Forms == {Form("A/1", "true", 5), Form("B/2", "false", UndefDate),
          Form("B/2", "true", UndefDate), Form("B/2", "true", 1)}

Patches ==
  {[NoBody EXCEPT !.letterNumber = "B/2"],
   [NoBody EXCEPT !.isInvitation = "true"], [NoBody EXCEPT !.isInvitation = "false"],
   [NoBody EXCEPT !.eventDate = NullDate], [NoBody EXCEPT !.eventDate = 6],
   [NoBody EXCEPT !.eventTime = "09:00"], [NoBody EXCEPT !.needsFollowUp = "true"]}

Known == 1..(nextLetter - 1)

\* POST /incoming-letters
PostIncoming(r) ==
  /\ nextLetter <= MaxLetters
  /\ \E b \in Forms, upload \in BOOLEAN :
       /\ upload => b.letterNumber = "A/1"
       /\ Accept(r, "createIncomingLetter", "u1", NoLetter, b, upload)

\* PUT /incoming-letters/:id
PutIncoming(r) ==
  \E id \in Known, b \in Patches, upload \in BOOLEAN :
    /\ upload => b.letterNumber # UndefS
    /\ Accept(r, "updateIncomingLetter", "u1", id, b, upload)

\* DELETE /incoming-letters/:id
DeleteIncoming(r) ==
  \E id \in Known : Accept(r, "deleteIncomingLetter", "u1", id, NoBody, FALSE)

\* POST /incoming-letters/:letterId/dispositions
PostDisposition(r) ==
  \E id \in Known :
    Accept(r, "createDispositionForLetter", "u2", id, [NoBody EXCEPT !.dispositionTo = "UMPEG"], FALSE)

IncomingHandler(r) ==
  \/ CreateIncoming(r)
  \/ UpdateIncomingFind(r)
  \/ UpdateIncomingWrite(r)
  \/ DeleteIncomingFind(r)
  \/ DeleteIncomingWrite(r)
  \/ CalCreate(r)
  \/ CalFind(r)
  \/ CalUpdate(r)
  \/ CalDeleteFind(r)
  \/ CalDelete(r)
  \/ DispositionFind(r)
  \/ DispositionWrite(r)

Next ==
  \E r \in Reqs :
    \/ PostIncoming(r)
    \/ PutIncoming(r)
    \/ DeleteIncoming(r)
    \/ PostDisposition(r)
    \/ IncomingHandler(r)

Spec == Init /\ [][Next]_vars

\* ---------------------------------------------- specification: the cron jobs
\* Two invitations were registered at tick 0 (a Monday morning): one for tick 2,
\* one for tick 14; the projector derived their calendar events. The cron jobs run
\* while a client edits and deletes those letters.
Invitation(num, date) == CreatedRow("in", Form(num, "true", date), "u1", NoFile)

InitJobs ==
  /\ InitCommon
  /\ disps = EmptyTable
  /\ nextDisp = 1
  /\ now = 0
  /\ letters = (1 :> Invitation("A/1", 2)) @@ (2 :> Invitation("B/2", 14))
  /\ events = (1 :> NewEvent(1, Invitation("A/1", 2), "u1")) @@
              (2 :> NewEvent(2, Invitation("B/2", 14), "u1"))
  /\ files = {}
  /\ nextLetter = 3
  /\ nextEvent = 3
  /\ nextFile = 1

UpcomingJob ==
  \/ \E k \in Slots : Trigger("upcomingEvents", k)
  \/ \E k \in Slots : UpcomingQuery(k)
  \/ \E k \in Slots, th \in {3, 1} : UpcomingNotify(k, th)
  \/ \E k \in Slots, th \in {3, 1} : UpcomingFlag(k, th)
  \/ \E k \in Slots : UpcomingCatch(k)

OverdueJob ==
  \/ \E k \in Slots : Trigger("overdueInvitations", k)
  \/ \E k \in Slots : OverdueQuery(k)
  \/ \E k \in Slots : OverdueNotify(k)
  \/ \E k \in Slots : OverdueStamp(k)

WeeklyJob ==
  \/ \E k \in Slots : Trigger("weeklySummary", k)
  \/ \E k \in Slots : WeeklyCount(k)
  \/ \E k \in Slots : WeeklyNotify(k)

NextJobs ==
  \/ UpcomingJob
  \/ OverdueJob
  \/ WeeklyJob
  \/ Tick

SpecJobs == InitJobs /\ [][NextJobs]_vars

\* ------------------------- specification: reminders while letters are edited
\* PUT /incoming-letters/2 with { eventDate }, the date it has or a later one;
\* DELETE /incoming-letters/2
PutEventDate(r) ==
  /\ nreqs < MaxEdits
  /\ \E date \in {14, 22} :
       Accept(r, "updateIncomingLetter", "u1", 2, [NoBody EXCEPT !.eventDate = date], FALSE)

DeleteInvitation(r) ==
  /\ nreqs < MaxEdits
  /\ Accept(r, "deleteIncomingLetter", "u1", 2, NoBody, FALSE)

EditHandler(r) ==
  \/ UpdateIncomingFind(r)
  \/ UpdateIncomingWrite(r)
  \/ DeleteIncomingFind(r)
  \/ DeleteIncomingWrite(r)
  \/ CalCreate(r)
  \/ CalFind(r)
  \/ CalUpdate(r)
  \/ CalDeleteFind(r)
  \/ CalDelete(r)

NextReminders ==
  \/ UpcomingJob
  \/ Tick
  \/ PutEventDate(1)
  \/ DeleteInvitation(1)
  \/ EditHandler(1)

SpecReminders == InitJobs /\ [][NextReminders]_vars

\* ------------------------------ specification: who may update and delete
\* u1 registered an invitation with an attachment; the projector derived its event
\* and u2 routed it. Outgoing letters are registered by u1 or u2; every user then
\* sends updates and deletes for the letters.
InitAuth ==
  /\ InitCommon
  /\ disps = (1 :> [incomingLetterId |-> 1, dispositionTo |-> "UMPEG",
                      createdById |-> "u2", createdAt |-> 1])
  /\ nextDisp = 2
  /\ now = 1
  /\ letters = (1 :> CreatedRow("in", Form("A/1", "true", 5), "u1", 1))
  /\ events = (1 :> NewEvent(1, CreatedRow("in", Form("A/1", "true", 5), "u1", 1), "u1"))
  /\ files = {1}
  /\ nextLetter = 2
  /\ nextEvent = 2
  /\ nextFile = 2

\* POST /outgoing-letters
PostOutgoing(r) ==
  /\ nreqs < MaxEdits
  /\ nextLetter <= MaxLetters
  /\ \E actor \in {"u1", "u2"}, upload \in BOOLEAN :
       Accept(r, "createOutgoingLetter", actor, NoLetter, Form("K/1", "true", 5), upload)

\* The route of a letter: /incoming-letters/1, /outgoing-letters/<the others>.
RouteOf(id, what) ==
  IF id = 1 THEN (IF what = "update" THEN "updateIncomingLetter" ELSE "deleteIncomingLetter")
            ELSE (IF what = "update" THEN "updateOutgoingLetter" ELSE "deleteOutgoingLetter")

\* PUT /<letters>/:id with { subject }: a title, one too short for either schema.
PutSubject(r) ==
  \E actor \in Users, id \in Known, subj \in {"Acara", ""}, upload \in BOOLEAN :
    /\ nreqs < MaxEdits
    /\ upload => subj = "Acara"
    /\ Accept(r, RouteOf(id, "update"), actor, id, [NoBody EXCEPT !.subject = subj], upload)

\* DELETE /<letters>/:id
DeleteLetter(r) ==
  \E actor \in Users, id \in Known : nreqs < MaxEdits /\ Accept(r, RouteOf(id, "delete"), actor, id, NoBody, FALSE)

AuthHandler(r) ==
  \/ EditHandler(r)
  \/ CreateOutgoing(r)
  \/ CreateOutgoingNotify(r)
  \/ UpdateOutgoingFind(r)
  \/ UpdateOutgoingWrite(r)
  \/ DeleteOutgoingFind(r)
  \/ DeleteOutgoingWrite(r)

NextAuth ==
  \E r \in Reqs :
    \/ PostOutgoing(r)
    \/ PutSubject(r)
    \/ DeleteLetter(r)
    \/ AuthHandler(r)

SpecAuth == InitAuth /\ [][NextAuth]_vars

\* ------------------- specification: the earlier incoming letter controller
\* The controller of lines 1-664: no calendar projector, no removal of the upload
\* when a request fails, and its own handleError.
\* handleError(error, res): ZodError and P2002 are both answered 400.
handleErrorV1(error) ==
  CASE error = "ZodError" -> 400
    [] error = "P2002" -> 400
    [] OTHER -> 500

\* incomingLetterSchema.parse, with its refine on eventDate.
incomingLetterSchema(b) ==
  /\ b.letterNumber \notin {UndefS, NullS} /\ Len(b.letterNumber) >= MinLetterNumber
  /\ b.subject \notin {UndefS, NullS} /\ Len(b.subject) >= MinSubject
  /\ b.baseDate \notin {UndefDate, NullDate} /\ b.baseDate <= now
  /\ ~(booleanPreprocess(b.isInvitation) /\ b.eventDate \in {UndefDate, NullDate})
  /\ b.eventDate \notin {UndefDate, NullDate} => b.eventDate > b.baseDate

\* updateIncomingLetterSchema.parse: optional fields, no refine.
updateIncomingLetterSchema(b) ==
  /\ b.letterNumber # UndefS => (b.letterNumber # NullS /\ Len(b.letterNumber) >= MinLetterNumber)
  /\ b.subject # UndefS => (b.subject # NullS /\ Len(b.subject) >= MinSubject)

\* updateData: `field !== undefined && { field: field || null }`
UpdatedRowV1(l, b, file) ==
  [UpdatedRow(l, b, file) EXCEPT
     !.eventTime = IF b.eventTime = UndefS THEN @ ELSE OrNull(b.eventTime),
     !.eventLocation = IF b.eventLocation = UndefS THEN @ ELSE OrNull(b.eventLocation),
     !.eventNotes = IF b.eventNotes = UndefS THEN @ ELSE OrNull(b.eventNotes)]

\* createIncomingLetter: parse and prisma.incomingLetter.create; the catch calls
\* handleError only, the upload stays on disk.
CreateIncomingV1(r) ==
  /\ req[r].op = "createIncomingLetter" /\ req[r].pc = "start"
  /\ LET b == req[r].body
         row == CreatedRow("in", b, req[r].actor, req[r].file) IN
     \/ /\ ~incomingLetterSchema(b)
        /\ Respond(r, handleErrorV1("ZodError"))
        /\ UNCHANGED <<letters, nextLetter>>
     \/ /\ incomingLetterSchema(b)
        /\ Duplicate("in", b.letterNumber, NoLetter)
        /\ Respond(r, handleErrorV1("P2002"))
        /\ UNCHANGED <<letters, nextLetter>>
     \/ /\ incomingLetterSchema(b)
        /\ Respond(r, handleErrorV1("other"))
        /\ UNCHANGED <<letters, nextLetter>>
     \/ /\ incomingLetterSchema(b)
        /\ ~Duplicate("in", b.letterNumber, NoLetter)
        /\ letters' = Insert(letters, nextLetter, row)
        /\ nextLetter' = nextLetter + 1
        /\ IF /\ row.isInvitation /\ row.eventDate # NullDate
              /\ DaysUntilEvent(row.eventDate, now) > 0
              /\ DaysUntilEvent(row.eventDate, now) <= 30
             THEN req' = SetReq(r, [req[r] EXCEPT !.id = nextLetter, !.pc = "notify"])
             ELSE req' = SetReq(r, [req[r] EXCEPT !.id = nextLetter, !.pc = "done", !.status = 201])
  /\ UNCHANGED <<events, disps, files, notifs, nextEvent, nextFile, nextDisp, nreqs, now, jobVars>>

\* prisma.notification.create('Acara Baru Ditambahkan'), inside the try.
CreateIncomingV1Notify(r) ==
  /\ req[r].op = "createIncomingLetter" /\ req[r].pc = "notify"
  /\ \/ /\ notifs' = createNotification("Acara Baru Ditambahkan", "INFO", NullS, NoEvent, <<0, 0>>)
        /\ Respond(r, 201)
     \/ /\ UNCHANGED notifs
        /\ Respond(r, handleErrorV1("other"))
  /\ UNCHANGED <<letters, events, disps, files, nextLetter, nextEvent, nextFile, nextDisp, nreqs, now, jobVars>>

\* updateIncomingLetter up to the update call; fs.unlinkSync of the old file.
UpdateIncomingV1Find(r) ==
  /\ req[r].op = "updateIncomingLetter" /\ req[r].pc = "start"
  /\ LET b == req[r].body IN
     \/ /\ ~updateIncomingLetterSchema(b)
        /\ Respond(r, handleErrorV1("ZodError"))
        /\ UNCHANGED files
     \/ /\ updateIncomingLetterSchema(b)
        /\ Respond(r, handleErrorV1("other"))
        /\ UNCHANGED files
     \/ /\ updateIncomingLetterSchema(b)
        /\ ~Exists("in", req[r].id)
        /\ Respond(r, 404)
        /\ UNCHANGED files
     \/ /\ updateIncomingLetterSchema(b)
        /\ Exists("in", req[r].id)
        /\ Forbidden(letters[req[r].id], req[r].actor)
        /\ Respond(r, 403)
        /\ UNCHANGED files
     \/ /\ updateIncomingLetterSchema(b)
        /\ Exists("in", req[r].id)
        /\ ~Forbidden(letters[req[r].id], req[r].actor)
        /\ files' = IF req[r].file # NoFile
                      THEN deletePhysicalFile(letters[req[r].id].filePath) ELSE files
        /\ Goto(r, "update")
  /\ UNCHANGED <<letters, events, disps, notifs, nextLetter, nextEvent, nextFile, nextDisp, nreqs, now, jobVars>>

\* prisma.incomingLetter.update and res.json(letter).
UpdateIncomingV1Write(r) ==
  /\ req[r].op = "updateIncomingLetter" /\ req[r].pc = "update"
  /\ LET b == req[r].body
         id == req[r].id IN
     \/ /\ Exists("in", id)
        /\ b.letterNumber # UndefS /\ Duplicate("in", b.letterNumber, id)
        /\ Respond(r, handleErrorV1("P2002"))
        /\ UNCHANGED letters
     \/ /\ Respond(r, handleErrorV1("other"))
        /\ UNCHANGED letters
     \/ /\ Exists("in", id)
        /\ ~(b.letterNumber # UndefS /\ Duplicate("in", b.letterNumber, id))
        /\ letters' = [letters EXCEPT ![id] = UpdatedRowV1(@, b, req[r].file)]
        /\ Respond(r, 200)
  /\ UNCHANGED <<events, disps, files, notifs, nextLetter, nextEvent, nextFile, nextDisp, nreqs, now, jobVars>>

\* The clock stands after the received date of the forms, which this schema
\* refuses when it lies in the future.
InitV1 ==
  /\ InitCommon
  /\ disps = EmptyTable
  /\ nextDisp = 1
  /\ letters = EmptyTable
  /\ events = EmptyTable
  /\ files = {}
  /\ nextLetter = 1
  /\ nextEvent = 1
  /\ nextFile = 1
  /\ now = 3

FormsV1 == {Form("A/1", "true", 5), Form("A/1", "false", UndefDate),
            Form("B/2", "false", UndefDate), Form("B/2", "true", UndefDate)}

PatchesV1 == {[NoBody EXCEPT !.letterNumber = "A/1"], [NoBody EXCEPT !.letterNumber = "B/2"],
              [NoBody EXCEPT !.eventNotes = ""]}

PostIncomingV1(r) ==
  /\ nextLetter <= MaxLetters
  /\ \E b \in FormsV1, upload \in BOOLEAN : Accept(r, "createIncomingLetter", "u1", NoLetter, b, upload)

PutIncomingV1(r) ==
  \E actor \in {"u1", "u2"}, id \in Known, b \in PatchesV1, upload \in BOOLEAN :
    Accept(r, "updateIncomingLetter", actor, id, b, upload)

NextV1 ==
  \E r \in Reqs :
    \/ PostIncomingV1(r)
    \/ PutIncomingV1(r)
    \/ CreateIncomingV1(r)
    \/ CreateIncomingV1Notify(r)
    \/ UpdateIncomingV1Find(r)
    \/ UpdateIncomingV1Write(r)

SpecV1 == InitV1 /\ [][NextV1]_vars

\* --------------------------------- specification: scheduled runs that are missed
\* Two invitations registered at tick 0: one for tick 2, overdue from the first
\* evening on, and one for tick 12, three days after the first morning run.
InitMissed ==
  /\ InitCommon
  /\ disps = EmptyTable
  /\ nextDisp = 1
  /\ now = 0
  /\ letters = (1 :> Invitation("A/1", 2)) @@ (2 :> Invitation("B/2", 12))
  /\ events = (1 :> NewEvent(1, Invitation("A/1", 2), "u1")) @@
              (2 :> NewEvent(2, Invitation("B/2", 12), "u1"))
  /\ files = {}
  /\ nextLetter = 3
  /\ nextEvent = 3
  /\ nextFile = 1

NextMissed ==
  \/ UpcomingJob
  \/ OverdueJob
  \/ Tick

SpecMissed == InitMissed /\ [][NextMissed]_vars

\* --------------------------- specification: the projector called in succession
\* What the calendar shows for a letter: title, date, time and location of its events.
Shown(id) ==
  {[title |-> events[e].title, date |-> events[e].date, time |-> events[e].time,
    location |-> events[e].location] : e \in EventsOf(id)}

\* Letter 1 has its calendar event; letter 2 is an invitation that has none yet.
InitSync ==
  /\ InitCommon
  /\ disps = EmptyTable
  /\ nextDisp = 1
  /\ now = 0
  /\ letters = (1 :> Invitation("A/1", 2)) @@ (2 :> Invitation("B/2", 14))
  /\ events = (1 :> NewEvent(1, Invitation("A/1", 2), "u1"))
  /\ files = {}
  /\ nextLetter = 3
  /\ nextEvent = 2
  /\ nextFile = 1

SyncPatches == {[NoBody EXCEPT !.eventDate = 14], [NoBody EXCEPT !.subject = "Acara"],
                [NoBody EXCEPT !.isInvitation = "false"]}

\* PUT /incoming-letters/:id with an invitation field: the handler calls
\* updateCalendarEventFromLetter once the row is written.
PutFirst(r) ==
  \E id \in Known, b \in SyncPatches :
    /\ nreqs < MaxEdits
    /\ Accept(r, "updateIncomingLetter", "u1", id, b, FALSE)

\* The same PUT sent again once the first has been answered 200: the letter row
\* is rewritten with the values it has and the projector is called a second time.
PutAgain(r) ==
  /\ nreqs < MaxEdits
  /\ req[r].op = "updateIncomingLetter" /\ req[r].pc = "done" /\ req[r].status = 200
  /\ nreqs' = nreqs + 1
  /\ req' = SetReq(r, [IdleReq EXCEPT !.op = "updateIncomingLetter", !.pc = "start",
                                      !.actor = req[r].actor, !.id = req[r].id,
                                      !.body = req[r].body, !.again = TRUE,
                                      !.before = Shown(req[r].id)])
  /\ UNCHANGED <<dbVars, now, jobVars>>

NextSync ==
  \/ PutFirst(1)
  \/ PutAgain(1)
  \/ UpdateIncomingFind(1)
  \/ UpdateIncomingWrite(1)
  \/ CalFind(1)
  \/ CalCreate(1)
  \/ CalUpdate(1)
  \/ CalDeleteFind(1)
  \/ CalDelete(1)
  \/ Tick

SpecSync == InitSync /\ [][NextSync]_vars

\* ------------------------------------------ specification: disposition router
\* dispositionSchema.parse of the disposition controller: z.string().uuid() on the
\* letter id the body carries, z.nativeEnum on the target.
dispositionSchemaWithLetter(id, b) == id # NoLetter /\ b.dispositionTo \in DispositionTargets

\* updateDispositionSchema.parse: the target is optional.
updateDispositionSchema(b) == b.dispositionTo \in DispositionTargets \cup {UndefS}

\* createDisposition up to the create call.
CreateDispositionFind(r) ==
  /\ req[r].op = "createDisposition" /\ req[r].pc = "start"
  /\ \/ /\ ~dispositionSchemaWithLetter(req[r].id, req[r].body)
        /\ Respond(r, 400)
     \/ /\ dispositionSchemaWithLetter(req[r].id, req[r].body)
        /\ Respond(r, 500)
     \/ /\ dispositionSchemaWithLetter(req[r].id, req[r].body)
        /\ ~Exists("in", req[r].id)
        /\ Respond(r, 404)
     \/ /\ dispositionSchemaWithLetter(req[r].id, req[r].body)
        /\ Exists("in", req[r].id)
        /\ Goto(r, "disp_create")
  /\ UNCHANGED <<dbVars, nreqs, now, jobVars>>

\* prisma.disposition.create of createDisposition: no creator is stored.
CreateDispositionWrite(r) ==
  /\ req[r].op = "createDisposition" /\ req[r].pc = "disp_create"
  /\ \/ /\ Exists("in", req[r].id)
        /\ disps' = Insert(disps, nextDisp, [incomingLetterId |-> req[r].id,
                             dispositionTo |-> req[r].body.dispositionTo,
                             createdById |-> NullS, createdAt |-> now])
        /\ nextDisp' = nextDisp + 1
        /\ Respond(r, 201)
     \/ /\ UNCHANGED <<disps, nextDisp>>
        /\ Respond(r, 500)
  /\ UNCHANGED <<letters, events, files, notifs, nextLetter, nextEvent, nextFile, nreqs, now, jobVars>>

\* findMany({ where: { incomingLetterId }, orderBy: { createdAt: 'desc' } }): every
\* order of the letter's rows in which createdAt never increases; rows with the
\* same createdAt come in any order.
findManyDesc(id) ==
  LET rows == {d \in DOMAIN disps : disps[d].incomingLetterId = id} IN
  {s \in [1..Cardinality(rows) -> rows] :
     /\ \A i, j \in DOMAIN s : i # j => s[i] # s[j]
     /\ \A i, j \in DOMAIN s : i < j => disps[s[i]].createdAt >= disps[s[j]].createdAt}

\* res.status(200).json(dispositions)
RespondList(r, s) ==
  req' = SetReq(r, [req[r] EXCEPT !.pc = "done", !.status = 200, !.list = s])

\* getDispositionsForLetter: the rows of the letter, no check that it exists.
GetDispositionsForLetter(r) ==
  /\ req[r].op = "getDispositionsForLetter" /\ req[r].pc = "start"
  /\ \/ \E s \in findManyDesc(req[r].id) : RespondList(r, s)
     \/ Respond(r, 500)
  /\ UNCHANGED <<dbVars, nreqs, now, jobVars>>

\* getDispositionsByLetter up to the findMany call.
GetDispositionsByLetterFind(r) ==
  /\ req[r].op = "getDispositionsByLetter" /\ req[r].pc = "start"
  /\ \/ Respond(r, 500)
     \/ /\ ~Exists("in", req[r].id)
        /\ Respond(r, 404)
     \/ /\ Exists("in", req[r].id)
        /\ Goto(r, "disp_list")
  /\ UNCHANGED <<dbVars, nreqs, now, jobVars>>

\* getDispositionsByLetter: findMany and the answer.
GetDispositionsByLetterList(r) ==
  /\ req[r].op = "getDispositionsByLetter" /\ req[r].pc = "disp_list"
  /\ \/ \E s \in findManyDesc(req[r].id) : RespondList(r, s)
     \/ Respond(r, 500)
  /\ UNCHANGED <<dbVars, nreqs, now, jobVars>>

\* updateDisposition up to the update call; req.id is the disposition's id.
UpdateDispositionFind(r) ==
  /\ req[r].op = "updateDisposition" /\ req[r].pc = "start"
  /\ \/ /\ ~updateDispositionSchema(req[r].body)
        /\ Respond(r, 400)
     \/ /\ updateDispositionSchema(req[r].body)
        /\ Respond(r, 500)
     \/ /\ updateDispositionSchema(req[r].body)
        /\ req[r].id \notin DOMAIN disps
        /\ Respond(r, 404)
     \/ /\ updateDispositionSchema(req[r].body)
        /\ req[r].id \in DOMAIN disps
        /\ Goto(r, "disp_update")
  /\ UNCHANGED <<dbVars, nreqs, now, jobVars>>

\* prisma.disposition.update: ...(data.dispositionTo && { dispositionTo }).
UpdateDispositionWrite(r) ==
  /\ req[r].op = "updateDisposition" /\ req[r].pc = "disp_update"
  /\ \/ /\ req[r].id \in DOMAIN disps
        /\ disps' = [disps EXCEPT ![req[r].id].dispositionTo =
                       IF req[r].body.dispositionTo # UndefS THEN req[r].body.dispositionTo ELSE @]
        /\ Respond(r, 200)
     \/ /\ UNCHANGED disps
        /\ Respond(r, 500)
  /\ UNCHANGED <<letters, events, files, notifs, nextLetter, nextEvent, nextFile, nextDisp,
                 nreqs, now, jobVars>>

\* deleteDisposition up to the delete call.
DeleteDispositionFind(r) ==
  /\ req[r].op = "deleteDisposition" /\ req[r].pc = "start"
  /\ \/ Respond(r, 500)
     \/ /\ req[r].id \notin DOMAIN disps
        /\ Respond(r, 404)
     \/ /\ req[r].id \in DOMAIN disps
        /\ Goto(r, "disp_delete")
  /\ UNCHANGED <<dbVars, nreqs, now, jobVars>>

\* prisma.disposition.delete({ where: { id } })
DeleteDispositionWrite(r) ==
  /\ req[r].op = "deleteDisposition" /\ req[r].pc = "disp_delete"
  /\ \/ /\ req[r].id \in DOMAIN disps
        /\ disps' = Remove(disps, {req[r].id})
        /\ Respond(r, 200)
     \/ /\ UNCHANGED disps
        /\ Respond(r, 500)
  /\ UNCHANGED <<letters, events, files, notifs, nextLetter, nextEvent, nextFile, nextDisp,
                 nreqs, now, jobVars>>

\* Two plain incoming letters are registered; no letter has id 3.
InitDisp ==
  /\ InitCommon
  /\ disps = EmptyTable
  /\ nextDisp = 1
  /\ now = MaxTime - 2
  /\ letters = (1 :> CreatedRow("in", Form("A/1", "false", UndefDate), "u1", NoFile))
                 @@ (2 :> CreatedRow("in", Form("B/2", "false", UndefDate), "u1", NoFile))
  /\ events = EmptyTable
  /\ files = {}
  /\ nextLetter = 3
  /\ nextEvent = 1
  /\ nextFile = 1

\* POST /incoming-letters/:letterId/dispositions, for a letter that exists or not
\* and a target that is a department code or not.
PostDispositionFor(r) ==
  \E id \in {1, 2, 3}, t \in {"UMPEG", "KABID", "XYZ"} :
    Accept(r, "createDispositionForLetter", "u2", id, [NoBody EXCEPT !.dispositionTo = t], FALSE)

\* POST /dispositions
PostDispositions(r) ==
  \E id \in {NoLetter, 1, 3}, t \in {"UMPEG", "XYZ"} :
    Accept(r, "createDisposition", "u2", id, [NoBody EXCEPT !.dispositionTo = t], FALSE)

\* GET /incoming-letters/:letterId/dispositions
GetForLetter(r) ==
  \E id \in {1, 2, 3} : Accept(r, "getDispositionsForLetter", "u2", id, NoBody, FALSE)

\* GET /dispositions/letter/:letterId
GetByLetter(r) ==
  \E id \in {1, 2, 3} : Accept(r, "getDispositionsByLetter", "u2", id, NoBody, FALSE)

\* PUT /dispositions/:id
PutDisposition(r) ==
  \E d \in 1..(nextDisp - 1), t \in {"KABID", "XYZ", UndefS} :
    Accept(r, "updateDisposition", "u1", d, [NoBody EXCEPT !.dispositionTo = t], FALSE)

\* DELETE /dispositions/:id
DeleteDisposition(r) ==
  \E d \in 1..(nextDisp - 1) : Accept(r, "deleteDisposition", "u1", d, NoBody, FALSE)

NextDisp ==
  \/ \E r \in Reqs :
       \/ PostDispositionFor(r)
       \/ PostDispositions(r)
       \/ GetForLetter(r)
       \/ GetByLetter(r)
       \/ PutDisposition(r)
       \/ DeleteDisposition(r)
       \/ DispositionFind(r)
       \/ DispositionWrite(r)
       \/ CreateDispositionFind(r)
       \/ CreateDispositionWrite(r)
       \/ GetDispositionsForLetter(r)
       \/ GetDispositionsByLetterFind(r)
       \/ GetDispositionsByLetterList(r)
       \/ UpdateDispositionFind(r)
       \/ UpdateDispositionWrite(r)
       \/ DeleteDispositionFind(r)
       \/ DeleteDispositionWrite(r)
  \/ Tick

SpecDisp == InitDisp /\ [][NextDisp]_vars

\* ------------------------------------------------ specification: letter lists
DEFAULT_PAGE_SIZE == 10
MAX_PAGE_SIZE == 100

\* prisma.<letter>.count({ where }) with no search and no category.
CountOf(d) == Cardinality({i \in DOMAIN letters : letters[i].dir = d})

\* prisma.outgoingLetter for getOutgoingLetters, prisma.incomingLetter otherwise.
TableOf(op) == IF op = "getOutgoingLetters" THEN "out" ELSE "in"

\* res.status(200).json({ letters, pagination })
RespondPage(r, page, limit) ==
  req' = SetReq(r, [req[r] EXCEPT !.pc = "done", !.status = 200,
                      !.pagination = [total |-> CountOf(TableOf(req[r].op)), current |-> page,
                                      limit |-> limit, skip |-> SkipOf(page, limit),
                                      pages |-> MathCeilDiv(CountOf(TableOf(req[r].op)), limit)]])

\* getIncomingLetters of the incoming letter controller: page and limit are clamped.
GetIncomingLetters(r) ==
  /\ req[r].op = "getIncomingLetters" /\ req[r].pc = "start"
  /\ LET page == MathMax(Fin(1), OrElse(parseInt(req[r].query.page), Fin(1)))
         limit == MathMin(Fin(MAX_PAGE_SIZE),
                          MathMax(Fin(1), OrElse(parseInt(req[r].query.limit),
                                                 Fin(DEFAULT_PAGE_SIZE))))
     IN \/ RespondPage(r, page, limit)
        \/ Respond(r, 500)
  /\ UNCHANGED <<dbVars, nreqs, now, jobVars>>

\* const { page = '1', limit = '9' } = req.query
OrDefault(q, d) == IF q = Absent THEN d ELSE q

\* skip and take as Prisma accepts them: integers, skip not negative.
PrismaAccepts(skip, take) == skip # NaN /\ take # NaN /\ skip[1] >= 0

\* getOutgoingLetters, and getIncomingLetters of the outgoing letter controller file:
\* page and limit are parsed and used as they are.
GetLettersUnclamped(r) ==
  /\ req[r].op \in {"getOutgoingLetters", "getIncomingLettersUnclamped"} /\ req[r].pc = "start"
  /\ LET pageNum == parseInt(OrDefault(req[r].query.page, <<"1">>))
         limitNum == parseInt(OrDefault(req[r].query.limit, <<"9">>))
     IN \/ /\ PrismaAccepts(SkipOf(pageNum, limitNum), limitNum)
           /\ RespondPage(r, pageNum, limitNum)
        \/ Respond(r, 500)
  /\ UNCHANGED <<dbVars, nreqs, now, jobVars>>

\* Three incoming letters and two outgoing letters are registered.
InitPage ==
  /\ InitCommon
  /\ disps = EmptyTable
  /\ nextDisp = 1
  /\ now = 1
  /\ letters = (1 :> CreatedRow("in", Form("A/1", "false", UndefDate), "u1", NoFile))
                 @@ (2 :> CreatedRow("in", Form("B/2", "false", UndefDate), "u1", NoFile))
                 @@ (3 :> CreatedRow("in", Form("C/3", "false", UndefDate), "u1", NoFile))
                 @@ (4 :> CreatedRow("out", Form("A/1", "false", UndefDate), "u1", NoFile))
                 @@ (5 :> CreatedRow("out", Form("B/2", "false", UndefDate), "u1", NoFile))
  /\ events = EmptyTable
  /\ files = {}
  /\ nextLetter = 6
  /\ nextEvent = 1
  /\ nextFile = 1

\* The values a client sends for page and limit: none, not a number, zero, negative,
\* small, with a trailing fraction, larger than the maximum.
QueryValues == {Absent, <<"a", "b", "c">>, <<"0">>, <<"-", "1">>, <<"1">>, <<"2">>,
                <<"2", ".", "7">>, <<"1", "5", "0">>}

\* GET /incoming-letters and GET /outgoing-letters with ?page=&limit=.
GetList(r) ==
  \E op \in {"getIncomingLetters", "getOutgoingLetters", "getIncomingLettersUnclamped"},
     p \in QueryValues, l \in QueryValues :
    /\ nreqs < MaxEdits
    /\ req[r].pc \in {"idle", "done"}
    /\ nreqs' = nreqs + 1
    /\ req' = SetReq(r, [IdleReq EXCEPT !.op = op, !.pc = "start", !.actor = "u1",
                           !.query = [page |-> p, limit |-> l]])
    /\ UNCHANGED <<dbVars, now, jobVars>>

NextPage ==
  \/ GetList(1)
  \/ GetIncomingLetters(1)
  \/ GetLettersUnclamped(1)

SpecPage == InitPage /\ [][NextPage]_vars

\* ------------------------------- specification: reminders with e-mail delivery
\* tomorrow: setDate(getDate() + 1), setHours(0, 0, 0, 0)
Tomorrow(t) == (t \div DayLen) * DayLen + DayLen

\* whereClause: { isInvitation: true, eventDate: { gte: tomorrow, lt: dayAfterTomorrow } }
TomorrowIds(d, t) ==
  {i \in DOMAIN letters : /\ letters[i].dir = d
                          /\ letters[i].isInvitation
                          /\ letters[i].eventDate # NullDate
                          /\ letters[i].eventDate >= Tomorrow(t)
                          /\ letters[i].eventDate < Tomorrow(t) + DayLen}

\* prisma.incomingLetter.findMany({ where: whereClause, include: includeUser })
RemindQueryIncoming(k) ==
  LET j == "upcomingEvents" IN
  /\ inv[j][k].pc = "query"
  /\ \/ \E list \in SeqsOf(TomorrowIds("in", inv[j][k].now)) :
          /\ inv' = SetInv(j, k, [inv[j][k] EXCEPT !.list = list, !.pc = "query_out"])
          /\ UNCHANGED <<jobStatus, outcome>>
     \/ ToCatch(j, k)
  /\ UNCHANGED <<dbVars, reqVars, now, fired>>

\* prisma.outgoingLetter.findMany(...), then processEventReminders on both lists.
RemindQueryOutgoing(k) ==
  LET j == "upcomingEvents" IN
  /\ inv[j][k].pc = "query_out"
  /\ \/ \E list \in SeqsOf(TomorrowIds("out", inv[j][k].now)) :
          IF inv[j][k].list \o list = <<>>
            THEN Finally(j, k, "ok")
            ELSE /\ inv' = SetInv(j, k, [inv[j][k] EXCEPT !.list = @ \o list, !.idx = 1,
                                                          !.pc = "remind"])
                 /\ UNCHANGED <<jobStatus, outcome>>
     \/ ToCatch(j, k)
  /\ UNCHANGED <<dbVars, reqVars, now, fired>>

\* await createNotification(title, message, 'INFO'): cnt counts the reminders stored.
RemindNotify(k) ==
  LET j == "upcomingEvents" IN
  /\ inv[j][k].pc = "remind"
  /\ \/ /\ notifs' = createNotification("Pengingat Acara Besok", "INFO", NullS,
                                        inv[j][k].list[inv[j][k].idx], <<1, 0>>)
        /\ inv' = SetInv(j, k, [inv[j][k] EXCEPT !.pc = "mail", !.cnt = <<@[1] + 1, 0>>])
        /\ UNCHANGED <<jobStatus, outcome>>
     \/ /\ ToCatch(j, k)
        /\ UNCHANGED notifs
  /\ UNCHANGED <<letters, events, disps, files, nextLetter, nextEvent, nextFile, nextDisp,
                 reqVars, now, fired>>

\* What one call of sendEmailNotification does: return without sending when the
\* SMTP credentials are not set, send, or have sendMail throw.
MailOutcomes == {"skipped", "sent", "failed"}

\* sendEmailNotification has returned: the loop goes on with the next letter.
MailReturned(k, res) ==
  LET j == "upcomingEvents"
      i == [inv[j][k] EXCEPT !.mails = Append(@, res)] IN
  IF i.idx + 1 > Len(i.list)
    THEN /\ jobStatus' = [jobStatus EXCEPT ![j] = FALSE]
         /\ inv' = SetInv(j, k, IdleInv)
         /\ outcome' = [outcome EXCEPT ![j] = [how |-> "ok", sel |-> i.sel, missed |-> i.missed,
                                               mails |-> i.mails]]
    ELSE /\ inv' = SetInv(j, k, [i EXCEPT !.idx = @ + 1, !.pc = "remind"])
         /\ UNCHANGED <<jobStatus, outcome>>

\* transporter.sendMail awaited with no try around it: its exception reaches the
\* catch of the job.
sendEmailUncaught(k, res) ==
  IF res = "failed"
    THEN /\ inv' = SetInv("upcomingEvents", k,
                          [inv["upcomingEvents"][k] EXCEPT !.mails = Append(@, res), !.pc = "catch"])
         /\ UNCHANGED <<jobStatus, outcome>>
    ELSE MailReturned(k, res)

\* sendEmailNotification: try { await transporter.sendMail(...) } catch { log }.
sendEmailNotification(k, res) == MailReturned(k, res)

\* if (letter.user?.email) await sendEmailNotification(...)
RemindMail(k) ==
  /\ inv["upcomingEvents"][k].pc = "mail"
  /\ \E res \in MailOutcomes : sendEmailNotification(k, res)
  /\ UNCHANGED <<dbVars, reqVars, now, fired>>

\* An incoming and an outgoing invitation for tomorrow, a third for the day after.
InitMail ==
  /\ InitCommon
  /\ disps = EmptyTable
  /\ nextDisp = 1
  /\ now = 0
  /\ letters = (1 :> Invitation("A/1", 5))
                 @@ (2 :> CreatedRow("out", Form("A/1", "true", 6), "u2", NoFile))
                 @@ (3 :> Invitation("B/2", 9))
  /\ events = EmptyTable
  /\ files = {}
  /\ nextLetter = 4
  /\ nextEvent = 1
  /\ nextFile = 1

NextMail ==
  \/ \E k \in Slots : Trigger("upcomingEvents", k)
  \/ \E k \in Slots : RemindQueryIncoming(k)
  \/ \E k \in Slots : RemindQueryOutgoing(k)
  \/ \E k \in Slots : RemindNotify(k)
  \/ \E k \in Slots : RemindMail(k)
  \/ \E k \in Slots : UpcomingCatch(k)
  \/ Tick

SpecMail == InitMail /\ [][NextMail]_vars

\* ----------------------------------- specification: deleting an incoming letter
\* DELETE /incoming-letters/:id sent by any user, one request after the other, for
\* the invitation of InitAuth (its event, its attachment) or for a letter that does
\* not exist.
DeleteOne(r) ==
  \E actor \in Users, id \in {1, 2} :
    Accept(r, "deleteIncomingLetter", actor, id, NoBody, FALSE)

NextDelete ==
  \/ DeleteOne(1)
  \/ DeleteIncomingFind(1)
  \/ CalDeleteFind(1)
  \/ CalDelete(1)
  \/ DeleteIncomingWrite(1)
  \/ Tick

SpecDelete == InitAuth /\ [][NextDelete]_vars

\* ------------------- specification: an overdue invitation is given a later date
\* The invitation for tick 2 is overdue from the first evening on; its creator then
\* moves the event to tick 5 or to tick 22. The scheduler is fair: time passes and
\* a job that can take a step takes one.
PutLaterDate(r) ==
  /\ nreqs < MaxEdits
  /\ \E date \in {5, 22} :
       Accept(r, "updateIncomingLetter", "u1", 1, [NoBody EXCEPT !.eventDate = date], FALSE)

NextOverdue ==
  \/ OverdueJob
  \/ Tick
  \/ PutLaterDate(1)
  \/ UpdateIncomingFind(1)
  \/ UpdateIncomingWrite(1)
  \/ CalFind(1)
  \/ CalUpdate(1)

SpecOverdue == InitMissed /\ [][NextOverdue]_vars /\ WF_vars(Tick) /\ WF_vars(OverdueJob)

\* ------------------------------------------------------------------- claims
\* C1: a calendar event never receives two reminder notifications for the same
\* threshold (3 days, 1 day) unless a letter update reset its flags in between.
C1_ReminderOnce ==
  \A e \in DOMAIN events : events[e].sent3 <= 1 /\ events[e].sent1 <= 1

\* C7: a run of the overdue job selects at most 20 letters, and once it has ended
\* every letter it selected carries a non-null overdueNotifiedAt.
C7_SelectedAreStamped ==
  /\ \A k \in Slots : Cardinality(inv["overdueInvitations"][k].sel) <= OverdueTake
  /\ \A i \in outcome["overdueInvitations"].sel :
       i \in DOMAIN letters => letters[i].overdueNotifiedAt # NullDate

Running(j) == {k \in Slots : InBody(j, k)}

\* C8: for each job at most one invocation is in the job body at any time, and an
\* invocation that starts while another is in the body returns without touching the
\* database or the other invocation.
C8_OneBodyPerJob ==
  /\ [](\A j \in Jobs : Cardinality(Running(j)) <= 1)
  /\ [][\A j \in Jobs : (fired'[j] # fired[j] /\ Running(j) # {}) =>
          (UNCHANGED <<dbVars, inv, jobStatus>> /\ outcome'[j].how = "skipped")]_vars

C8_SkippedWhileRunning ==
  \E j \in Jobs : outcome[j].how = "skipped" /\ Running(j) # {}

\* C9: when an invocation that took its guard leaves the body, by any exit, the flag
\* is false again: the flag is set only while an invocation is in the body, and a
\* trigger is skipped only while one is.
C9_GuardReleased ==
  /\ [](\A j \in Jobs : jobStatus[j] => Running(j) # {})
  /\ [][\A j \in Jobs : \A k \in Slots :
          (InBody(j, k) /\ inv'[j][k].pc = "idle") => ~jobStatus'[j]]_vars
  /\ [][\A j \in Jobs : (fired'[j] # fired[j] /\ outcome'[j].how = "skipped") =>
          Running(j) # {}]_vars

C9_CatchThrew ==
  /\ outcome["upcomingEvents"].how = "threw"
  /\ ~jobStatus["upcomingEvents"]
  /\ Running("upcomingEvents") = {}

Quiescent == \A r \in Reqs : req[r].pc \in {"idle", "done"}

Completed(r, op, code) == req[r].op = op /\ req[r].pc = "done" /\ req[r].status = code

\* C2: once a create, update or delete of an incoming letter has completed and no
\* request is in flight, a calendar event references an incoming letter exactly when
\* that letter has isInvitation = true and a non-null eventDate.
C2_EventIffInvitation ==
  (Quiescent /\ \E r \in Reqs : req[r].pc = "done") =>
    \A id \in DOMAIN letters :
      letters[id].dir = "in" => ((EventsOf(id) # {}) <=> ~NotInvitation(letters[id]))

\* C3: every stored letter with isInvitation = true has a non-null eventDate that is
\* strictly later than its receivedDate / createdDate.
C3_InvitationHasLaterDate ==
  \A id \in DOMAIN letters :
    letters[id].isInvitation =>
      (letters[id].eventDate # NullDate /\ letters[id].eventDate > letters[id].baseDate)

\* C5: when an update that carries a new attachment has failed, the file the letter
\* row points to still exists.
C5_OldFileKept ==
  \A r \in Reqs :
    (/\ req[r].op \in {"updateIncomingLetter", "updateOutgoingLetter"}
     /\ req[r].pc = "done" /\ req[r].status # 200
     /\ req[r].file # NoFile
     /\ req[r].id \in DOMAIN letters
     /\ letters[req[r].id].filePath # NoFile)
    => letters[req[r].id].filePath \in files

\* C6: after a successful delete of an incoming letter no calendar event derived from
\* that letter and no disposition of that letter remains.
C6_NoOrphans ==
  \A r \in Reqs :
    Completed(r, "deleteIncomingLetter", 204) =>
      /\ \A e \in DOMAIN events : events[e].origin # req[r].id
      /\ \A d \in DOMAIN disps : disps[d].incomingLetterId # req[r].id

ChangesInvitationField(b) ==
  \/ b.eventDate # UndefDate
  \/ b.eventTime # UndefS
  \/ b.eventLocation # UndefS
  \/ b.eventNotes # UndefS
  \/ b.subject # UndefS

\* C10: after a successful update of an invitation letter that sends eventDate,
\* eventTime, eventLocation, eventNotes or subject, the letter's calendar event carries
\* the title, description, date, time and location derived from the letter, and both
\* notification flags are false.
C10_EventFollowsLetter ==
  \A r \in Reqs :
    (/\ Completed(r, "updateIncomingLetter", 200)
     /\ ChangesInvitationField(req[r].body)
     /\ Quiescent
     /\ Exists("in", req[r].id)
     /\ ~NotInvitation(letters[req[r].id]))
    => \A e \in EventsOf(req[r].id) :
         LET l == letters[req[r].id] IN
         /\ events[e].title = l.subject
         /\ events[e].description = Description(l)
         /\ events[e].date = l.eventDate
         /\ events[e].time = OrNull(l.eventTime)
         /\ events[e].location = OrNull(l.eventLocation)
         /\ ~events[e].notified3Days
         /\ ~events[e].notified1Day

Permitted(l, actor) == actor = l.userId \/ Role(actor) = "ADMIN"

EditOps == {"updateIncomingLetter", "deleteIncomingLetter",
            "updateOutgoingLetter", "deleteOutgoingLetter"}

\* An update or delete request for an existing letter from a user who is neither its
\* creator nor an administrator.
Outsider(r) ==
  /\ req[r].op \in EditOps
  /\ req[r].id \in DOMAIN letters
  /\ ~Permitted(letters[req[r].id], req[r].actor)

StepOf(r) == req[r].pc \notin {"idle", "done"} /\ req'[r] # req[r]

\* C4 as stated: every update or delete request from a user who is neither the
\* letter's creator nor an administrator is answered 403.
C4_OutsiderGets403 ==
  \A r \in Reqs : (Outsider(r) /\ req[r].pc = "done") => req[r].status = 403

\* C4 as amended: no step of such a request changes a letter, a calendar event or a
\* disposition or removes a stored attachment, and the request is answered 403, or 400
\* when its body fails validation, or 500 when the lookup of the letter fails.
C4_OutsiderChangesNothing ==
  /\ [][\A r \in Reqs : (Outsider(r) /\ StepOf(r)) =>
          /\ UNCHANGED <<letters, events, disps>>
          /\ \A i \in DOMAIN letters : letters[i].filePath \in files => letters[i].filePath \in files']_vars
  /\ [](\A r \in Reqs : (Outsider(r) /\ req[r].pc = "done") => req[r].status \in {403, 400, 500})

C4_OutsiderRefused ==
  \E r \in Reqs : Outsider(r) /\ req[r].pc = "done" /\ req[r].status = 403 /\ req[r].file # NoFile

\* C11: every letter has at most one calendar event referencing it, also while two
\* requests for the same letter are inside the projector.
C11_OneEventPerLetter ==
  \A id \in DOMAIN letters : Cardinality(EventsOf(id)) <= 1

SameNumber(i, j) ==
  /\ i # j
  /\ letters[i].dir = letters[j].dir
  /\ letters[i].letterNumber = letters[j].letterNumber

\* A request whose body passes the schema of its handler.
ValidBodyV1(r) ==
  IF req[r].op = "createIncomingLetter" THEN incomingLetterSchema(req[r].body)
                                        ELSE updateIncomingLetterSchema(req[r].body)

\* C12: no two letters of one direction share a letterNumber, and a create or an
\* update with a valid body that the unique index refused is answered 409 Conflict.
C12_DuplicateIs409 ==
  /\ \A i, j \in DOMAIN letters : ~SameNumber(i, j)
  /\ \A r \in Reqs :
       (req[r].pc = "done" /\ ValidBodyV1(r) /\ req[r].status \notin {200, 201, 403, 404, 500})
         => req[r].status = 409

\* C13: every stored incoming letter with needsFollowUp = true has a non-null
\* followUpDeadline.
C13_FollowUpHasDeadline ==
  \A id \in DOMAIN letters :
    (letters[id].dir = "in" /\ letters[id].needsFollowUp) => letters[id].followUpDeadline # NullDate

UploadOps == {"createIncomingLetter", "updateIncomingLetter",
              "createOutgoingLetter", "updateOutgoingLetter"}

\* A create or update request that carried an upload and was answered with an error.
UploadFailed(r) ==
  /\ req[r].op \in UploadOps
  /\ req[r].pc = "done"
  /\ req[r].file # NoFile
  /\ req[r].status >= 400

PathsOf == {letters[i].filePath : i \in DOMAIN letters} \ {NoFile}

\* C14: once a create or update that carried an upload has ended in an error, the
\* uploaded file is gone and no letter row references it, and with no other request
\* in flight the stored files are exactly the files the letter rows reference.
C14_NoLeakedUpload ==
  \A r \in Reqs :
    UploadFailed(r) =>
      /\ req[r].file \notin files
      /\ \A i \in DOMAIN letters : letters[i].filePath # req[r].file
      /\ Quiescent => files = PathsOf

\* The time at which occurrence n of job j is scheduled.
RunTime(j, n) == n * DayLen + At(j)

\* The run of the upcoming job scheduled as occurrence n would find the event at
\* th days.
ThresholdAt(date, th, n) ==
  /\ date >= RunTime("upcomingEvents", n)
  /\ DaysUntilEvent(date, RunTime("upcomingEvents", n)) = th

Reminded(e, th) == IF th = 3 THEN events[e].sent3 >= 1 ELSE events[e].sent1 >= 1

\* C15: when a run that followed a missed occurrence has completed without error,
\* every event whose 3-day or 1-day threshold fell on the missed occurrence has that
\* reminder, and every invitation that was overdue at the missed occurrence of the
\* overdue job is stamped.
C15_MissedRunCaughtUp ==
  /\ \A e \in DOMAIN events : \A th \in {3, 1} :
       LET o == outcome["upcomingEvents"] IN
       (o.how = "ok" /\ o.missed >= 0 /\ ThresholdAt(events[e].date, th, o.missed))
         => Reminded(e, th)
  /\ \A i \in DOMAIN letters :
       LET o == outcome["overdueInvitations"] IN
       (/\ o.how = "ok" /\ o.missed >= 0
        /\ letters[i].isInvitation /\ letters[i].eventDate # NullDate
        /\ letters[i].eventDate < RunTime("overdueInvitations", o.missed))
         => letters[i].overdueNotifiedAt # NullDate

\* C16: every overdue invitation is included in the batch of at most one overdue
\* notification.
C16_CountedOnce ==
  \A i \in DOMAIN letters : letters[i].alerts <= 1

\* The jobs whose flag, invocations or trigger a step touches.
Touched == {j \in Jobs : jobStatus'[j] # jobStatus[j] \/ inv'[j] # inv[j] \/ fired'[j] # fired[j]}

\* C17: a step of one job, whether it succeeds or throws, changes no other job's
\* guard flag or invocation, and a trigger that finds no invocation of its own job
\* in the body enters the body whatever the other jobs are doing.
C17_JobsIndependent ==
  /\ [][Cardinality(Touched) <= 1]_vars
  /\ [][\A j \in Jobs : (fired'[j] # fired[j] /\ Running(j) = {}) =>
          (jobStatus'[j] /\ outcome'[j] = outcome[j] /\ \E k \in Slots : inv'[j][k].pc = "query")]_vars

\* The overdue job is in its body while the upcoming job is still in its own, or
\* after the last run of the upcoming job threw out of its catch handler.
C17_StartedBesideAnother ==
  /\ Running("overdueInvitations") # {}
  /\ Running("upcomingEvents") # {} \/ outcome["upcomingEvents"].how = "threw"

\* C18: when the projector has been called a second time in succession for an
\* invitation letter with the data of the first call, the letter has exactly one
\* calendar event, with the title, date, time and location it had after the first.
C18_SyncIdempotent ==
  \A r \in Reqs :
    (/\ req[r].again /\ req[r].pc = "done" /\ req[r].status = 200
     /\ Exists("in", req[r].id)
     /\ ~NotInvitation(letters[req[r].id]))
    => /\ Cardinality(EventsOf(req[r].id)) = 1
       /\ Shown(req[r].id) = req[r].before

\* C19: routing a disposition succeeds only when the target is one of the nine
\* department codes and the incoming letter exists: a request whose target is unknown
\* is answered 400, a request that names a letter which does not exist is answered
\* 404 (500 when the database call itself fails), and in both cases the dispositions
\* table is left as it was.
Routes == {"createDispositionForLetter", "createDisposition"}

Answered(r) == req[r].pc # "done" /\ req'[r].pc = "done"

RowsOf(id) == {d \in DOMAIN disps : disps[d].incomingLetterId = id}

RowsKept ==
  \A d \in DOMAIN disps :
    disps[d].incomingLetterId \in DOMAIN letters' => d \in DOMAIN disps' /\ disps'[d] = disps[d]

RouteAddsOne ==
  \A r \in Reqs :
    (req[r].op \in Routes /\ Answered(r) /\ req'[r].status = 201) =>
      \E d \in DOMAIN disps' \ DOMAIN disps :
        /\ DOMAIN disps' = DOMAIN disps \cup {d}
        /\ disps'[d].incomingLetterId = req[r].id
        /\ \A e \in DOMAIN disps : disps'[e] = disps[e]

Listings == {"getDispositionsForLetter", "getDispositionsByLetter"}

ListNewestFirst ==
  \A r \in Reqs :
    (req[r].op \in Listings /\ Answered(r) /\ req'[r].status = 200) =>
      LET s == req'[r].list IN
        /\ {s[i] : i \in DOMAIN s} = RowsOf(req[r].id)
        /\ Len(s) = Cardinality(RowsOf(req[r].id))
        /\ \A i \in DOMAIN s : disps[s[1]].createdAt >= disps[s[i]].createdAt

C20_AppendOnly == [][RowsKept /\ RouteAddsOne /\ ListNewestFirst]_vars

\* C21: whatever page and limit a client sends to a letter list, a listing answered
\* 200 reports an integer page >= 1, an integer page size between 1 and 100 that is
\* 10 when no limit was sent, skipped (page - 1) * limit >= 0 rows, and reports
\* total = the number of letters of the table and pages = ceil(total / limit).
ListOps == {"getIncomingLetters", "getOutgoingLetters", "getIncomingLettersUnclamped"}

Listed(r) == req[r].op \in ListOps /\ req[r].pc = "done" /\ req[r].status = 200

PageOk(r) ==
  LET p == req[r].pagination IN
    /\ p.current[2] = 1 /\ p.current[1] >= 1
    /\ p.limit[2] = 1 /\ p.limit[1] >= 1 /\ p.limit[1] <= 100
    /\ req[r].query.limit = Absent => p.limit = Fin(10)
    /\ p.skip = Fin((p.current[1] - 1) * p.limit[1]) /\ p.skip[1] >= 0
    /\ p.total = CountOf(TableOf(req[r].op))
    /\ p.pages = Fin(CeilDiv(p.total, p.limit[1]))

C21_PaginationBounded == \A r \in Reqs : Listed(r) => PageOk(r)

\* C22: a step of the upcoming-event job that stores a reminder does so for a
\* scanned event whose days-until-event is exactly the threshold (3 or 1) and whose
\* flag for it read false, and stores exactly one notification, a broadcast one:
\* its owning user is null.
ReminderTitle(th) == IF th = 3 THEN "Pengingat Acara (3 Hari Lagi)" ELSE "Pengingat Acara (Besok)"

C22_ReminderBroadcast ==
  [][\A k \in Slots :
       LET i == inv["upcomingEvents"][k]
           th == IF i.pc = "notify3" THEN 3 ELSE 1 IN
       (i.pc \in {"notify3", "notify1"} /\ inv'["upcomingEvents"][k].pc \in {"flag3", "flag1"}) =>
         /\ DaysUntilEvent(i.list[i.idx].date, i.now) = th
         /\ IF th = 3 THEN ~i.list[i.idx].notified3Days ELSE ~i.list[i.idx].notified1Day
         /\ notifs' = notifs (+) SetToBag({Notification(ReminderTitle(th), "INFO", NullS,
                                                         i.list[i.idx].id, <<th, 0>>)})]_vars

\* C23: no run of a scheduled job ends with an exception leaving the job function,
\* and a run of the upcoming-events job that reached its catch handler ends with
\* exactly one ERROR notification stored by that handler.
C23_CaughtInsideJob ==
  [][\A j \in Jobs, k \in Slots :
       (InBody(j, k) /\ inv'[j][k].pc = "idle") =>
         /\ outcome'[j].how # "threw"
         /\ (j = "upcomingEvents" /\ inv[j][k].pc = "catch") =>
              notifs' = notifs (+) SetToBag({Notification("System Error", "ERROR", NullS,
                                                          NoEvent, <<0, 0>>)})]_vars

\* C24: when the weekly-summary job counts, the two numbers it takes are the numbers
\* of incoming and of outgoing letters created in the calendar week, Monday's first
\* tick to Sunday's last, that contains the run day, and the step changes no
\* letter, disposition or calendar event.
MondayOf(t) == (t - (t % DayLen)) - ((GetDay(t) + 6) % 7) * DayLen

InWeekOf(d, t) ==
  Cardinality({i \in DOMAIN letters : /\ letters[i].dir = d
                                      /\ letters[i].createdAt >= MondayOf(t)
                                      /\ letters[i].createdAt < MondayOf(t) + 7 * DayLen})

C24_CalendarWeekCounted ==
  [][\A k \in Slots :
       LET i == inv["weeklySummary"][k] IN
       (i.pc = "query" /\ inv'["weeklySummary"][k].pc = "notify") =>
         /\ inv'["weeklySummary"][k].cnt = <<InWeekOf("in", i.now), InWeekOf("out", i.now)>>
         /\ UNCHANGED <<letters, disps, events>>]_vars

\* C25: e-mail delivery never affects the in-app notification or the progress of
\* the job: whenever sendEmailNotification is called for a letter, the reminder of
\* that letter has been stored, and whatever the call does (skip for want of
\* credentials, send, fail) the notifications stay as they are and the job goes on
\* with the next letter or ends normally.
C25_MailNeverStopsJob ==
  [][\A k \in Slots :
       LET i == inv["upcomingEvents"][k]
           i2 == inv'["upcomingEvents"][k] IN
       (i.pc = "mail" /\ i2.pc # "mail") =>
         /\ i.cnt[1] = Len(i.mails) + 1
         /\ notifs' = notifs
         /\ \/ i2.pc = "remind" /\ i2.idx = i.idx + 1
            \/ i2.pc = "idle" /\ outcome'["upcomingEvents"].how = "ok"
                /\ Len(outcome'["upcomingEvents"].mails) = Len(i.list)]_vars

\* C25 witness: a run ended normally after the mail of its first reminder failed and
\* it went on to the second letter, with both reminders stored.
C25_FailedMailThenNext ==
  /\ outcome["upcomingEvents"].how = "ok"
  /\ Len(outcome["upcomingEvents"].mails) = 2
  /\ outcome["upcomingEvents"].mails[1] = "failed"
  /\ \A l \in {1, 2} :
       BagIn(Notification("Pengingat Acara Besok", "INFO", NullS, l, <<1, 0>>), notifs)

\* C26: once the creation of an outgoing letter with isInvitation = true and an
\* event date has been answered 201 and no request is in flight, a calendar event
\* derived from that letter exists, dated the letter's eventDate, with both
\* notification flags false.
C26_OutgoingProjected ==
  \A r \in Reqs :
    (/\ Quiescent
     /\ Completed(r, "createOutgoingLetter", 201)
     /\ Exists("out", req[r].id)
     /\ ~NotInvitation(letters[req[r].id]))
    => \E e \in DOMAIN events :
         /\ events[e].origin = req[r].id
         /\ events[e].date = letters[req[r].id].eventDate
         /\ ~events[e].notified3Days /\ ~events[e].notified1Day

\* C27: once no run of the upcoming-event job is in its body and no request is in
\* flight, a notification flag of a calendar event is true only if the job stored a
\* reminder of that threshold after reading the date the event has now.
C27_FlagForCurrentDate ==
  (Quiescent /\ Running("upcomingEvents") = {}) =>
    \A e \in DOMAIN events :
      /\ events[e].notified3Days => events[e].for3 = events[e].date
      /\ events[e].notified1Day => events[e].for1 = events[e].date

\* C28: deleteIncomingLetter is all-or-nothing: when a delete request has been
\* answered with an error (403, 404 or 500) and the letter row is still there, the
\* row is as it was, its calendar event exists and its attachment is still stored.
C28_DeleteAllOrNothing ==
  \A r \in Reqs :
    (/\ req[r].op = "deleteIncomingLetter" /\ req[r].pc = "done"
     /\ req[r].status \in {403, 404, 500}
     /\ Exists("in", 1))
    => /\ letters[1] = [CreatedRow("in", Form("A/1", "true", 5), "u1", 1) EXCEPT !.createdAt = 1]
       /\ EventsOf(1) # {}
       /\ letters[1].filePath \in files

\* C29: with the overdue job run every day, every incoming invitation whose event
\* date is reached is eventually included in an overdue notification created after
\* that date, also when the date was moved after the letter had been stamped for
\* its earlier date. A run still to come is given: the last scheduled run has not
\* been triggered and no run is in progress; the run may report a failed query.
LastRun == Occurrence("overdueInvitations", MaxTime)

RunAhead ==
  /\ fired["overdueInvitations"] < LastRun
  /\ \A k \in Slots : inv["overdueInvitations"][k].pc = "idle"

DateReached(i, d) ==
  /\ Exists("in", i)
  /\ letters[i].isInvitation
  /\ letters[i].eventDate = d
  /\ d = now

AlertedAfter(i, d) == Exists("in", i) /\ letters[i].alertedAt > d

Redated(i, d) == ~Exists("in", i) \/ letters[i].eventDate # d

RunFailed ==
  /\ fired["overdueInvitations"] = LastRun
  /\ outcome["overdueInvitations"].how # "ok"

MayModify(d, actor) == d.createdById = actor \/ Role(actor) = "ADMIN"

DispositionEdits == {"updateDisposition", "deleteDisposition"}

EditedBy(r, d) ==
  /\ req[r].op \in DispositionEdits
  /\ req[r].id = d
  /\ req[r].pc # "done" /\ req'[r].pc = "done"

C30_CreatorOrAdminOnly ==
  [][\A d \in DOMAIN disps :
       /\ (d \notin DOMAIN disps' \/ disps'[d] # disps[d])
            => \E r \in Reqs : EditedBy(r, d) /\ MayModify(disps[d], req[r].actor)
       /\ d \in DOMAIN disps' => disps'[d].incomingLetterId = disps[d].incomingLetterId
       /\ \A r \in Reqs : (EditedBy(r, d) /\ ~MayModify(disps[d], req[r].actor))
            => req'[r].status \notin {200, 204}]_vars


====
